---- MODULE Spec2Model ----
(***************************************************************************)
(* Campus navigation routing engine: graph construction (lib/graph.ts,     *)
(* lib/road-pathfinding.ts), mode-access evaluation, A* search and the two *)
(* hybrid route planners (lib/pathfinding.ts, lib/hybrid-routing.ts).      *)
(*                                                                         *)
(* Representation                                                          *)
(*  - a coordinate is a pair <<lng, lat>> (GeoJSON order) of integers, in  *)
(*    metres of a local planar frame;                                      *)
(*  - a JS string is a TLA+ string; includes/split/replace/toLowerCase are *)
(*    computed on its characters;                                          *)
(*  - a JS Map or Set is a sequence in insertion order;                    *)
(*  - a node id `node_<lat>_<lng>` is the tuple <<"node", lat, lng>>, a    *)
(*    road node id `<lat>_<lng>` the tuple <<"road", lat, lng>>;           *)
(*  - speeds are in units of 0.1 m/s and times in units of 1/840 s, so     *)
(*    that distance / speed is exact in the integers.                      *)
(***************************************************************************)
EXTENDS Integers, Sequences, FiniteSets, TLC

(***************************************************************************)
(* Bounds of the model                                                     *)
(***************************************************************************)
\* number of lines of the campus skeleton that a feature collection may use
MaxLines == 4
\* number of mode-tag choices a line of the collection may carry
NumTagChoices == 2

(***************************************************************************)
(* JavaScript values and string functions                                  *)
(***************************************************************************)
\* null / undefined
Null == [null |-> TRUE]

\* the empty string '' that the searches use as "no node"
NoId == <<>>

\* String.prototype.includes
Includes(s, sub) ==
  \/ Len(sub) = 0
  \/ \E i \in 1..(Len(s) - Len(sub) + 1) : SubSeq(s, i, i + Len(sub) - 1) = sub

\* String.prototype.indexOf, 1-based, 0 when absent
IndexOf(s, sub) ==
  IF Includes(s, sub)
  THEN CHOOSE i \in 1..(Len(s) - Len(sub) + 1) :
         /\ SubSeq(s, i, i + Len(sub) - 1) = sub
         /\ \A j \in 1..(i - 1) : SubSeq(s, j, j + Len(sub) - 1) # sub
  ELSE 0

\* String.prototype.replace(sub, '') : removes the first occurrence of sub
ReplaceFirstWithEmpty(s, sub) ==
  LET i == IndexOf(s, sub)
  IN IF i = 0 THEN s
     ELSE SubSeq(s, 1, i - 1) \o SubSeq(s, i + Len(sub), Len(s))

\* String.prototype.split(sep) : the sequence of all pieces
RECURSIVE Split(_, _)
Split(s, sep) ==
  LET i == IndexOf(s, sep)
  IN IF i = 0 THEN <<s>>
     ELSE <<SubSeq(s, 1, i - 1)>> \o Split(SubSeq(s, i + Len(sep), Len(s)), sep)

UpperChars == "ABCDEFGHIJKLMNOPQRSTUVWXYZ"
LowerChars == "abcdefghijklmnopqrstuvwxyz"

\* String.prototype.toLowerCase
RECURSIVE ToLowerCase(_)
ToLowerCase(s) ==
  IF Len(s) = 0 THEN s
  ELSE LET c == SubSeq(s, 1, 1)
           k == IndexOf(UpperChars, c)
       IN (IF k = 0 THEN c ELSE SubSeq(LowerChars, k, k))
          \o ToLowerCase(SubSeq(s, 2, Len(s)))

\* String.prototype.trim (spaces only occur as blanks in the tags)
RECURSIVE Trim(_)
Trim(s) ==
  IF Len(s) = 0 THEN s
  ELSE IF SubSeq(s, 1, 1) = " " THEN Trim(SubSeq(s, 2, Len(s)))
  ELSE IF SubSeq(s, Len(s), Len(s)) = " " THEN Trim(SubSeq(s, 1, Len(s) - 1))
  ELSE s

\* String.prototype.startsWith
StartsWith(s, pre) == Len(s) >= Len(pre) /\ SubSeq(s, 1, Len(pre)) = pre

\* Array.prototype.includes
ArrayIncludes(arr, x) == \E i \in 1..Len(arr) : arr[i] = x

(***************************************************************************)
(* data/destinations.ts : the destination catalog                          *)
(***************************************************************************)
destinations == <<
  [id |-> "gate1",                name |-> "Gate 1",                     coordinates |-> <<0, 0>>],
  [id |-> "gate2",                name |-> "Gate 2",                     coordinates |-> <<0, 9>>],
  [id |-> "parking-2wheeler",     name |-> "2-Wheeler square parking",   coordinates |-> <<5, 21>>],
  [id |-> "parking-4wheeler",     name |-> "4-Wheeler parking",          coordinates |-> <<12, 0>>],
  [id |-> "architecture-parking", name |-> "Architecture Block Parking", coordinates |-> <<24, 14>>],
  [id |-> "devadan-parking",      name |-> "Devadan Block Parking",      coordinates |-> <<12, 14>>],
  [id |-> "block1-ent1",          name |-> "Block 1 Entrance 1",         coordinates |-> <<24, 5>>] >>

\* Array.prototype.find on the catalog: first match, undefined when none
FindDestinationById(id) ==
  IF \E i \in 1..Len(destinations) : destinations[i].id = id
  THEN destinations[CHOOSE i \in 1..Len(destinations) :
                      /\ destinations[i].id = id
                      /\ \A j \in 1..(i - 1) : destinations[j].id # id]
  ELSE Null

FindDestinationByName(part) ==
  IF \E i \in 1..Len(destinations) : Includes(destinations[i].name, part)
  THEN destinations[CHOOSE i \in 1..Len(destinations) :
                      /\ Includes(destinations[i].name, part)
                      /\ \A j \in 1..(i - 1) : ~Includes(destinations[j].name, part)]
  ELSE Null

\* `dest?.name?.includes(part)` : undefined, hence falsy, without a destination
NameIncludes(dest, part) == dest # Null /\ Includes(dest.name, part)

\* `dest?.name?.toLowerCase().includes(part)`
LowerNameIncludes(dest, part) == dest # Null /\ Includes(ToLowerCase(dest.name), part)

(***************************************************************************)
(* lib/graph.ts : geometry                                                 *)
(***************************************************************************)
\* floor of the square root
RECURSIVE IsqrtFrom(_, _)
IsqrtFrom(n, r) == IF (r + 1) * (r + 1) > n THEN r ELSE IsqrtFrom(n, r + 1)

\* great-circle distance in metres; on the campus scale it is the planar
\* distance of the two points
haversine(lat1, lng1, lat2, lng2) ==
  IsqrtFrom((lat2 - lat1) * (lat2 - lat1) + (lng2 - lng1) * (lng2 - lng1), 0)

(***************************************************************************)
(* lib/graph.ts : the routing graph                                        *)
(***************************************************************************)
generateNodeId(lat, lng) == <<"node", lat, lng>>

generateEdgeId(fromId, toId) == <<"edge", fromId, toId>>

\* Map.prototype.has / get on a Map kept as the sequence of its values,
\* each value carrying its key in the field id
MapHas(map, id) == \E i \in 1..Len(map) : map[i].id = id

MapGet(map, id) == map[CHOOSE i \in 1..Len(map) : map[i].id = id]

\* Map.prototype.set : a new key is appended, an existing key keeps its place
MapSet(map, value) ==
  IF MapHas(map, value.id)
  THEN [i \in 1..Len(map) |-> IF map[i].id = value.id THEN value ELSE map[i]]
  ELSE Append(map, value)

\* tolerance parameter default of findOrCreateNearbyNode
NearbyTolerance == 2

\* the first node, in insertion order, within the tolerance; else a new id
findOrCreateNearbyNode(nodes, lat, lng) ==
  LET near == {i \in 1..Len(nodes) :
                 haversine(lat, lng, nodes[i].lat, nodes[i].lng) <= NearbyTolerance}
  IN IF near # {}
     THEN nodes[CHOOSE i \in near : \A j \in near : i <= j].id
     ELSE generateNodeId(lat, lng)

\* `feature.properties.mode || ['W']`
FeatureModes(feature) == IF "mode" \in DOMAIN feature THEN feature.mode ELSE <<"W">>

\* first pass: one destination node per Point feature
RECURSIVE AddPointNodes(_, _, _)
AddPointNodes(features, k, g) ==
  IF k > Len(features) THEN g
  ELSE LET feature == features[k]
           lng == feature.coordinates[1][1]
           lat == feature.coordinates[1][2]
           nodeId == generateNodeId(lat, lng)
       IN IF feature.type = "Point" /\ ~MapHas(g.nodes, nodeId)
          THEN AddPointNodes(features, k + 1,
                 [g EXCEPT !.nodes = Append(@, [id |-> nodeId, lat |-> lat, lng |-> lng,
                                                type |-> "destination"]),
                           !.adjacency = [n \in DOMAIN @ \cup {nodeId} |->
                                            IF n = nodeId THEN <<>> ELSE @[n]]])
          ELSE AddPointNodes(features, k + 1, g)

\* body of the loop over the coordinates of one line, for index i
LineStep(g, coordinates, modes, i) ==
  LET lng == coordinates[i][1]
      lat == coordinates[i][2]
      nodeId == findOrCreateNearbyNode(g.nodes, lat, lng)
      isNew == ~MapHas(g.nodes, nodeId)
      nodes1 == IF isNew
                THEN Append(g.nodes,
                       [id |-> nodeId, lat |-> lat, lng |-> lng,
                        type |-> IF i = 1 \/ i = Len(coordinates)
                                 THEN "endpoint" ELSE "intersection"])
                ELSE g.nodes
      \* adjacency.set(nodeId, []) replaces any list recorded for the id
      adj1 == IF isNew
              THEN [n \in DOMAIN g.adjacency \cup {nodeId} |->
                      IF n = nodeId THEN <<>> ELSE g.adjacency[n]]
              ELSE g.adjacency
  IN IF i < Len(coordinates)
     THEN LET nextLng == coordinates[i + 1][1]
              nextLat == coordinates[i + 1][2]
              nextNodeId == findOrCreateNearbyNode(nodes1, nextLat, nextLng)
              distance == haversine(lat, lng, nextLat, nextLng)
              edge == [id |-> generateEdgeId(nodeId, nextNodeId), from |-> nodeId,
                       to |-> nextNodeId, distance |-> distance, modes |-> modes]
              reverseEdge == [id |-> generateEdgeId(nextNodeId, nodeId), from |-> nextNodeId,
                              to |-> nodeId, distance |-> distance, modes |-> modes]
              \* adjacency.get(nodeId)?.push(nextNodeId)
              adj2 == IF nodeId \in DOMAIN adj1
                      THEN [adj1 EXCEPT ![nodeId] = Append(@, nextNodeId)]
                      ELSE adj1
              \* if (!adjacency.has(nextNodeId)) adjacency.set(nextNodeId, [])
              adj3 == IF nextNodeId \in DOMAIN adj2
                      THEN adj2
                      ELSE [n \in DOMAIN adj2 \cup {nextNodeId} |->
                              IF n = nextNodeId THEN <<>> ELSE adj2[n]]
              adj4 == [adj3 EXCEPT ![nextNodeId] = Append(@, nodeId)]
          IN [nodes |-> nodes1,
              edges |-> g.edges \o <<edge, reverseEdge>>,
              adjacency |-> adj4]
     ELSE [nodes |-> nodes1, edges |-> g.edges, adjacency |-> adj1]

RECURSIVE AddLine(_, _, _, _)
AddLine(g, coordinates, modes, i) ==
  IF i > Len(coordinates) THEN g
  ELSE AddLine(LineStep(g, coordinates, modes, i), coordinates, modes, i + 1)

\* second pass: the LineString features, in order
RECURSIVE AddLines(_, _, _)
AddLines(features, k, g) ==
  IF k > Len(features) THEN g
  ELSE IF features[k].type = "LineString"
       THEN AddLines(features, k + 1,
                     AddLine(g, features[k].coordinates, FeatureModes(features[k]), 1))
       ELSE AddLines(features, k + 1, g)

EmptyGraph == [nodes |-> <<>>, edges |-> <<>>, adjacency |-> <<>>]

buildGraphFromGeoJSON(geoJsonData) ==
  AddLines(geoJsonData, 1, AddPointNodes(geoJsonData, 1, EmptyGraph))

\* the closest node, the first one in insertion order among equals
findNearestNode(nodes, lat, lng) ==
  IF Len(nodes) = 0 THEN Null
  ELSE LET d(i) == haversine(lat, lng, nodes[i].lat, nodes[i].lng)
           best == CHOOSE i \in 1..Len(nodes) :
                     /\ \A j \in 1..Len(nodes) : d(i) <= d(j)
                     /\ \A j \in 1..(i - 1) : d(j) > d(i)
       IN [id |-> nodes[best].id, distance |-> d(best)]

(***************************************************************************)
(* lib/road-pathfinding.ts : the road graph                                *)
(***************************************************************************)
SNAP_DISTANCE == 5

\* `${lat.toFixed(8)}_${lng.toFixed(8)}`
RoadNodeId(lat, lng) == <<"road", lat, lng>>

\* `${a}_${b}`
RoadEdgeId(a, b) == <<"roadedge", a, b>>

\* returns the node map after the call and the id found or created
findOrCreateNode(nodes, lat, lng) ==
  LET near == {i \in 1..Len(nodes) :
                 haversine(lat, lng, nodes[i].lat, nodes[i].lng) <= SNAP_DISTANCE}
  IN IF near # {}
     THEN [nodes |-> nodes, id |-> nodes[CHOOSE i \in near : \A j \in near : i <= j].id]
     ELSE [nodes |-> Append(nodes, [id |-> RoadNodeId(lat, lng), lat |-> lat, lng |-> lng,
                                    connections |-> <<>>]),
           id |-> RoadNodeId(lat, lng)]

\* `if (!node.connections.includes(other)) node.connections.push(other)`
Connect(nodes, id, other) ==
  [i \in 1..Len(nodes) |->
     IF nodes[i].id = id /\ ~ArrayIncludes(nodes[i].connections, other)
     THEN [nodes[i] EXCEPT !.connections = Append(@, other)]
     ELSE nodes[i]]

\* body of the loop over the coordinates of one road, for index i
RoadStep(rg, coordinates, modes, i) ==
  LET lng == coordinates[i][1]
      lat == coordinates[i][2]
      r1 == findOrCreateNode(rg.nodes, lat, lng)
      nodeId == r1.id
  IN IF i < Len(coordinates)
     THEN LET nextLng == coordinates[i + 1][1]
              nextLat == coordinates[i + 1][2]
              r2 == findOrCreateNode(r1.nodes, nextLat, nextLng)
              nextNodeId == r2.id
          IN IF nodeId # nextNodeId
             THEN LET currentNode == MapGet(r2.nodes, nodeId)
                      nextNode == MapGet(r2.nodes, nextNodeId)
                      distance == haversine(currentNode.lat, currentNode.lng,
                                            nextNode.lat, nextNode.lng)
                      forward == [id |-> RoadEdgeId(nodeId, nextNodeId), from |-> nodeId,
                                  to |-> nextNodeId, distance |-> distance, modes |-> modes]
                      backward == [id |-> RoadEdgeId(nextNodeId, nodeId), from |-> nextNodeId,
                                   to |-> nodeId, distance |-> distance, modes |-> modes]
                  IN [nodes |-> Connect(Connect(r2.nodes, nodeId, nextNodeId),
                                        nextNodeId, nodeId),
                      edges |-> MapSet(MapSet(rg.edges, forward), backward)]
             ELSE [nodes |-> r2.nodes, edges |-> rg.edges]
     ELSE [nodes |-> r1.nodes, edges |-> rg.edges]

RECURSIVE AddRoad(_, _, _, _)
AddRoad(rg, coordinates, modes, i) ==
  IF i > Len(coordinates) THEN rg
  ELSE AddRoad(RoadStep(rg, coordinates, modes, i), coordinates, modes, i + 1)

RECURSIVE AddRoads(_, _, _)
AddRoads(features, k, rg) ==
  IF k > Len(features) THEN rg
  ELSE IF features[k].type = "LineString"
       THEN AddRoads(features, k + 1,
                     AddRoad(rg, features[k].coordinates, FeatureModes(features[k]), 1))
       ELSE AddRoads(features, k + 1, rg)

buildRoadGraphFromGeoJSON(geoJsonData) ==
  AddRoads(geoJsonData, 1, [nodes |-> <<>>, edges |-> <<>>])

\* the id of the closest road node, first in insertion order among equals;
\* null, kept as the empty id, when there is no node
findNearestRoadNode(nodes, lat, lng) ==
  IF Len(nodes) = 0 THEN NoId
  ELSE LET d(i) == haversine(lat, lng, nodes[i].lat, nodes[i].lng)
           best == CHOOSE i \in 1..Len(nodes) :
                     /\ \A j \in 1..Len(nodes) : d(i) <= d(j)
                     /\ \A j \in 1..(i - 1) : d(j) > d(i)
       IN nodes[best].id

(***************************************************************************)
(* lib/pathfinding.ts : mode access and A* over the routing graph          *)
(***************************************************************************)
\* metres per second, in units of 0.1 m/s
MODE_SPEEDS == [m \in {"W", "2", "4", "4PA", "4PI"} |->
                  CASE m = "W" -> 14 [] m = "2" -> 50 [] m = "4" -> 80
                    [] m = "4PA" -> 40 [] m = "4PI" -> 60]

MODE_COLORS == [m \in {"W", "2", "4", "4PA", "4PI"} |->
                  CASE m = "W" -> "#10B981" [] m = "2" -> "#3B82F6" [] m = "4" -> "#8B5CF6"
                    [] m = "4PA" -> "#F97316" [] m = "4PI" -> "#EF4444"]

\* time units per second times ten: the least common multiple of the speeds
TimeUnit == 8400

\* distance / speed
TravelTime(distance, speed) == (distance * TimeUnit) \div speed

\* the body of `if (mode.includes('if ') && mode.includes(' -> '))` in
\* checkModeAccess, for the pieces of the tag
ConditionGrantsAccess(conditionText, allowedMode, selectedMode, startDestination, goalDestination) ==
  /\ (allowedMode = selectedMode \/ Includes(allowedMode, selectedMode))
  /\ \/ /\ Includes(conditionText, "Architecture Block Parking")
        /\ NameIncludes(goalDestination, "Architecture Block Parking")
     \/ /\ Includes(conditionText, "Men's Hostel Block A/B/C/D Pickup")
        /\ NameIncludes(startDestination, "Men's Hostel Block")
     \/ /\ Includes(conditionText, "Devadan Block Parking")
        /\ NameIncludes(goalDestination, "Devadan")
     \/ /\ Includes(conditionText, "Girls Hostel")
        /\ NameIncludes(startDestination, "Girls Hostel")
     \/ /\ Includes(conditionText, "Block 1 Entrance 1")
        /\ NameIncludes(goalDestination, "Block 1 Entrance 1")
     \/ LowerNameIncludes(goalDestination, ToLowerCase(conditionText))
     \/ LowerNameIncludes(startDestination, ToLowerCase(conditionText))

\* `const [condition, allowedMode] = mode.split(' -> ')`, then the body
SplitGrantsAccess(parts, selectedMode, startDestination, goalDestination) ==
  ConditionGrantsAccess(ReplaceFirstWithEmpty(parts[1], "if "), parts[2], selectedMode,
                        startDestination, goalDestination)

\* what one tag of the edge contributes to checkModeAccess: the body of
\* its loop over the tags returns true or goes on to the next tag
TagGrantsAccess(mode, selectedMode, startDestination, goalDestination) ==
  \/ mode = selectedMode
  \/ selectedMode = "W" /\ Includes(mode, "W")
  \/ selectedMode # "W" /\ mode = selectedMode
  \/ /\ Includes(mode, "if ") /\ Includes(mode, " -> ")
     /\ SplitGrantsAccess(Split(mode, " -> "), selectedMode, startDestination, goalDestination)
  \/ Includes(mode, selectedMode)

\* checkModeAccess without its closing rule for Walking
checkModeAccess_TagsOnly(edgeModes, selectedMode, startDestination, goalDestination) ==
  \/ Len(edgeModes) = 0
  \/ \E i \in 1..Len(edgeModes) :
       TagGrantsAccess(edgeModes[i], selectedMode, startDestination, goalDestination)

checkModeAccess(edgeModes, selectedMode, startDestination, goalDestination) ==
  \/ Len(edgeModes) = 0
  \/ \E i \in 1..Len(edgeModes) :
       TagGrantsAccess(edgeModes[i], selectedMode, startDestination, goalDestination)
  \/ selectedMode = "W"

\* edgeMap.get(`${from}_${to}`) : of the edges from -> to, the one added last
EdgeMapHas(edges, from, to) ==
  \E i \in 1..Len(edges) : edges[i].from = from /\ edges[i].to = to

EdgeMapGet(edges, from, to) ==
  edges[CHOOSE i \in 1..Len(edges) :
          /\ edges[i].from = from /\ edges[i].to = to
          /\ \A j \in (i + 1)..Len(edges) : ~(edges[j].from = from /\ edges[j].to = to)]

\* `adjacency.get(id) || []`
Neighbors(adjacency, id) == IF id \in DOMAIN adjacency THEN adjacency[id] ELSE <<>>

\* breadth-first search over the adjacency index, modes ignored
RECURSIVE ConnectivityLoop(_, _, _, _)
ConnectivityLoop(adjacency, queue, visited, goalId) ==
  IF Len(queue) = 0 THEN FALSE
  ELSE LET current == Head(queue)
           neighbors == Neighbors(adjacency, current)
           \* the neighbours not visited yet, in order, each once
           fresh == SelectSeq(
                      [i \in 1..Len(neighbors) |->
                         IF neighbors[i] \notin visited
                            /\ \A j \in 1..(i - 1) : neighbors[j] # neighbors[i]
                         THEN neighbors[i] ELSE NoId],
                      LAMBDA n : n # NoId)
       IN IF current = goalId THEN TRUE
          ELSE ConnectivityLoop(adjacency, Tail(queue) \o fresh,
                                visited \cup {fresh[i] : i \in 1..Len(fresh)}, goalId)

\* a connectivity check that looks no further than the neighbours of the
\* start node
checkGraphConnectivity_NeighboursOnly(nodes, adjacency, startId, goalId) ==
  startId = goalId \/ ArrayIncludes(Neighbors(adjacency, startId), goalId)

checkGraphConnectivity(nodes, adjacency, startId, goalId) ==
  ConnectivityLoop(adjacency, <<startId>>, {startId}, goalId)

maxIterations == 10000

NotFound == [path |-> <<>>, distance |-> 0, travelTime |-> 0, found |-> FALSE]

\* the open node of lowest fCost, the first in insertion order among equals
LowestFCost(openSet, nodeMap) ==
  openSet[CHOOSE i \in 1..Len(openSet) :
            /\ \A j \in 1..Len(openSet) : nodeMap[openSet[i]].fCost <= nodeMap[openSet[j]].fCost
            /\ \A j \in 1..(i - 1) : nodeMap[openSet[j]].fCost > nodeMap[openSet[i]].fCost]

\* walk the parent pointers back from current, summing the edge lengths
RECURSIVE ReconstructPath(_, _, _, _, _)
ReconstructPath(edges, nodeMap, current, path, totalDistance) ==
  IF current = NoId THEN [path |-> path, distance |-> totalDistance]
  ELSE LET parent == nodeMap[current].parent
       IN ReconstructPath(edges, nodeMap, parent, <<current>> \o path,
            IF parent # NoId /\ EdgeMapHas(edges, parent, current)
            THEN totalDistance + EdgeMapGet(edges, parent, current).distance
            ELSE totalDistance)

\* the loop over the neighbours of currentId, from index k on
RECURSIVE RelaxNeighbors(_, _, _, _, _, _, _, _, _, _)
RelaxNeighbors(nodes, edges, neighbors, k, currentId, goalNode, mode, startDestination, goalDestination, st) ==
  IF k > Len(neighbors) THEN st
  ELSE LET neighborId == neighbors[k]
           next(s) == RelaxNeighbors(nodes, edges, neighbors, k + 1, currentId, goalNode,
                                     mode, startDestination, goalDestination, s)
       IN IF neighborId \in st.closedSet THEN next(st)
          ELSE IF ~EdgeMapHas(edges, currentId, neighborId) THEN next(st)
          ELSE LET edge == EdgeMapGet(edges, currentId, neighborId)
               IN IF ~checkModeAccess(edge.modes, mode, startDestination, goalDestination)
                  THEN next(st)
                  ELSE IF ~MapHas(nodes, neighborId) THEN next(st)
                  ELSE LET neighborNode == MapGet(nodes, neighborId)
                           speed == IF mode \in DOMAIN MODE_SPEEDS
                                    THEN MODE_SPEEDS[mode] ELSE MODE_SPEEDS["W"]
                           travelTime == TravelTime(edge.distance, speed)
                           tentativeGCost == st.nodeMap[currentId].gCost + travelTime
                           known == neighborId \in DOMAIN st.nodeMap
                           hCost == IF known THEN st.nodeMap[neighborId].hCost
                                    ELSE TravelTime(haversine(neighborNode.lat, neighborNode.lng,
                                                              goalNode.lat, goalNode.lng), speed)
                           \* a node entered just now has gCost Infinity
                           improves == ~known \/ tentativeGCost < st.nodeMap[neighborId].gCost
                           entry == [gCost |-> tentativeGCost, hCost |-> hCost,
                                     fCost |-> tentativeGCost + hCost, parent |-> currentId]
                       IN IF improves
                          THEN next([st EXCEPT
                                 !.nodeMap = [n \in DOMAIN @ \cup {neighborId} |->
                                                IF n = neighborId THEN entry ELSE @[n]],
                                 !.openSet = IF ArrayIncludes(@, neighborId) THEN @
                                             ELSE Append(@, neighborId)])
                          ELSE next(st)

\* the main loop of aStarPathfinding, up to the state it ends in: `reached`
\* is TRUE when it ends at the goal test; `expanded` lists the nodes moved
\* from the open set to the closed set, in order
RECURSIVE AStarRun(_, _, _, _, _, _, _, _)
AStarRun(nodes, edges, adjacency, goalId, mode, startDestination, goalDestination, st) ==
  IF ~(Len(st.openSet) > 0 /\ st.iterations < maxIterations) THEN st
  ELSE LET currentId == LowestFCost(st.openSet, st.nodeMap)
       IN IF currentId = goalId
          THEN [st EXCEPT !.iterations = @ + 1, !.reached = TRUE]
          ELSE LET st1 == [st EXCEPT
                             !.iterations = @ + 1,
                             !.openSet = SelectSeq(@, LAMBDA n : n # currentId),
                             !.closedSet = @ \cup {currentId},
                             !.expanded = Append(@, currentId)]
               IN AStarRun(nodes, edges, adjacency, goalId, mode,
                           startDestination, goalDestination,
                           RelaxNeighbors(nodes, edges, Neighbors(adjacency, currentId), 1,
                                          currentId, MapGet(nodes, goalId), mode,
                                          startDestination, goalDestination, st1))

\* the path of a run that ended at the goal test
FoundPath(goalId, end, r) ==
  [path |-> r.path, distance |-> r.distance,
   travelTime |-> end.nodeMap[goalId].gCost, found |-> TRUE]

\* a search that reports a run ending without the goal as an error value
AStarResult_FailureAsError(edges, goalId, end) ==
  IF end.reached
  THEN FoundPath(goalId, end, ReconstructPath(edges, end.nodeMap, goalId, <<>>, 0))
  ELSE [NotFound EXCEPT !.distance = -1]

\* the value aStarPathfinding returns for the state its main loop ended in
AStarResult(edges, goalId, end) ==
  IF end.reached
  THEN FoundPath(goalId, end, ReconstructPath(edges, end.nodeMap, goalId, <<>>, 0))
  ELSE NotFound

AStarLoop(nodes, edges, adjacency, goalId, mode, startDestination, goalDestination, st) ==
  AStarResult(edges, goalId,
              AStarRun(nodes, edges, adjacency, goalId, mode, startDestination,
                       goalDestination, st))

\* the state of the search when the main loop is entered
AStarStart(nodes, startId, goalId, mode) ==
  LET goalNode == MapGet(nodes, goalId)
      startNode == MapGet(nodes, startId)
      heuristicCost == TravelTime(haversine(startNode.lat, startNode.lng,
                                            goalNode.lat, goalNode.lng),
                                  MODE_SPEEDS[mode])
  IN [openSet |-> <<startId>>, closedSet |-> {}, iterations |-> 0,
      reached |-> FALSE, expanded |-> <<>>,
      nodeMap |-> [n \in {startId} |->
                     [gCost |-> 0, hCost |-> heuristicCost,
                      fCost |-> heuristicCost, parent |-> NoId]]]

\* aStarPathfinding from `// Initialize start node` on: the main loop from
\* the open set holding the start node alone
AStarFromStart(nodes, edges, adjacency, startId, goalId, mode, startDestination, goalDestination) ==
  AStarLoop(nodes, edges, adjacency, goalId, mode, startDestination, goalDestination,
            AStarStart(nodes, startId, goalId, mode))

\* aStarPathfinding searching as if the requested mode were Walking
aStarPathfinding_AsWalking(nodes, edges, adjacency, startId, goalId, mode, startDestination, goalDestination) ==
  IF ~MapHas(nodes, startId) \/ ~MapHas(nodes, goalId) THEN NotFound
  ELSE IF ~checkGraphConnectivity(nodes, adjacency, startId, goalId) THEN NotFound
  ELSE AStarFromStart(nodes, edges, adjacency, startId, goalId, "W",
                      startDestination, goalDestination)

aStarPathfinding(nodes, edges, adjacency, startId, goalId, mode, startDestination, goalDestination) ==
  IF ~MapHas(nodes, startId) \/ ~MapHas(nodes, goalId) THEN NotFound
  ELSE IF ~checkGraphConnectivity(nodes, adjacency, startId, goalId) THEN NotFound
  ELSE AStarFromStart(nodes, edges, adjacency, startId, goalId, mode,
                      startDestination, goalDestination)

(***************************************************************************)
(* lib/pathfinding.ts : single routes and the planner                      *)
(*                                                                         *)
(* Besides the fields of the code's values, a single-route result carries  *)
(* `searches`, the A* searches it ran, and a planner result carries        *)
(* `calls`, the searches of the whole query in order, and `thrown`, TRUE   *)
(* when the call ended in a TypeError instead of a value.                  *)
(***************************************************************************)
\* one A* search as it is recorded in `searches`
SearchRecord(startId, goalId, mode, startDestination, goalDestination) ==
  [startId |-> startId, goalId |-> goalId, mode |-> mode,
   startDestination |-> startDestination, goalDestination |-> goalDestination]

Sum(values) ==
  LET RECURSIVE SumFrom(_)
      SumFrom(i) == IF i > Len(values) THEN 0 ELSE values[i] + SumFrom(i + 1)
  IN SumFrom(1)

getModeName(mode) ==
  CASE mode = "W" -> "walking"
    [] mode = "2" -> "2-wheeler"
    [] mode = "4" -> "4-wheeler"
    [] mode = "4PA" -> "4-wheeler (parking)"
    [] mode = "4PI" -> "4-wheeler (pickup)"
    [] OTHER -> mode

\* [lat, lng] of the nodes of the path that are in the node map
pathToCoordinates(path, nodes) ==
  LET known == SelectSeq(path, LAMBDA nodeId : MapHas(nodes, nodeId))
  IN [i \in 1..Len(known) |-> <<MapGet(nodes, known[i]).lat, MapGet(nodes, known[i]).lng>>]

\* calculateSingleRoute from the result of its first search on
SingleRouteAfter(nodes, edges, adjacency, startId, goalId, mode, startDestination, goalDest, first) ==
  IF ~first.found /\ mode # "W"
  THEN aStarPathfinding(nodes, edges, adjacency, startId, goalId, "W", startDestination, goalDest)
       @@ [searches |-> <<SearchRecord(startId, goalId, mode, startDestination, goalDest),
                          SearchRecord(startId, goalId, "W", startDestination, goalDest)>>]
  ELSE first @@ [searches |-> <<SearchRecord(startId, goalId, mode, startDestination, goalDest)>>]

\* calculateSingleRoute from the nearest nodes on
SingleRouteBetween(nodes, edges, adjacency, startNearest, goalNearest, mode, startDestination, goalDest) ==
  IF startNearest = Null \/ goalNearest = Null
  THEN NotFound @@ [searches |-> <<>>]
  ELSE SingleRouteAfter(nodes, edges, adjacency, startNearest.id, goalNearest.id, mode,
                        startDestination, goalDest,
                        aStarPathfinding(nodes, edges, adjacency, startNearest.id,
                                         goalNearest.id, mode, startDestination, goalDest))

calculateSingleRoute(nodes, edges, adjacency, startLat, startLng, goalDestination, mode, startDestination, goalDest) ==
  SingleRouteBetween(nodes, edges, adjacency,
                     findNearestNode(nodes, startLat, startLng),
                     findNearestNode(nodes, goalDestination.coordinates[2],
                                     goalDestination.coordinates[1]),
                     mode, startDestination, goalDest)

shouldUseHybridRouting(mode, destination) ==
  LET twoWheelerParking == FindDestinationByName("2-Wheeler square parking")
      fourWheelerParking == FindDestinationByName("4-Wheeler parking")
  IN IF mode = "4"
     THEN IF Includes(destination.name, "Devadan Block Parking")
             \/ Includes(destination.name, "Architecture Block Parking")
          THEN [required |-> FALSE, parkingDestination |-> Null]
          ELSE [required |-> TRUE, parkingDestination |-> fourWheelerParking]
     ELSE IF mode = "2"
     THEN IF Includes(destination.name, "Devadan Block Parking")
          THEN [required |-> FALSE, parkingDestination |-> Null]
          ELSE [required |-> TRUE, parkingDestination |-> twoWheelerParking]
     ELSE [required |-> FALSE, parkingDestination |-> Null]

\* the color given to the leg of the fallback walking route
FallbackColor == "#EF4444"

\* variant: distance and travel time of the leg exchanged
PathSegment_Exchanged(route, mode, color, nodes) ==
  [path |-> route.path, distance |-> route.travelTime, travelTime |-> route.distance,
   mode |-> mode, color |-> color, coordinates |-> pathToCoordinates(route.path, nodes)]

PathSegment(route, mode, color, nodes) ==
  [path |-> route.path, distance |-> route.distance, travelTime |-> route.travelTime,
   mode |-> mode, color |-> color, coordinates |-> pathToCoordinates(route.path, nodes)]

\* `if (segments.length === 0)` : the fallback walking route, given the
\* result of its search
WithFallbackRoute(nodes, goalDestination, acc, walkingFallback) ==
  IF Len(acc.segments) = 0
  THEN IF walkingFallback.found
       THEN [segments |-> <<PathSegment(walkingFallback, "W", FallbackColor, nodes)>>,
             totalDistance |-> walkingFallback.distance,
             totalTravelTime |-> walkingFallback.travelTime,
             instructions |-> Append(acc.instructions,
                "Walk directly to " \o goalDestination.name \o " (fallback route)"),
             calls |-> acc.calls \o walkingFallback.searches]
       ELSE [acc EXCEPT !.calls = @ \o walkingFallback.searches]
  ELSE acc

\* the return statement of calculateHybridRoute
HybridPathResult(acc) ==
  [segments |-> acc.segments,
   totalDistance |-> acc.totalDistance,
   totalTravelTime |-> acc.totalTravelTime,
   found |-> /\ Len(acc.segments) > 0
             /\ \A i \in 1..Len(acc.segments) : Len(acc.segments[i].path) > 0,
   instructions |-> acc.instructions,
   calls |-> acc.calls,
   thrown |-> FALSE]

\* the end of calculateHybridRoute: the fallback walking route when no
\* segment was collected, then the result
FinishHybridRoute(nodes, edges, adjacency, startLat, startLng, goalDestination, acc) ==
  HybridPathResult(
    WithFallbackRoute(nodes, goalDestination, acc,
                      calculateSingleRoute(nodes, edges, adjacency, startLat, startLng,
                                           goalDestination, "W", Null, goalDestination)))

\* the value of a call that ended in a TypeError
Thrown(calls) ==
  [segments |-> <<>>, totalDistance |-> 0, totalTravelTime |-> 0, found |-> FALSE,
   instructions |-> <<>>, calls |-> calls, thrown |-> TRUE]

\* the hybrid branch once the vehicle segment is pushed (acc1), given the
\* result of the walking segment
AfterWalkingSegment(nodes, goalDestination, parkingDestination, acc1, walkingSegment) ==
  IF walkingSegment.found
  THEN [segments |-> Append(acc1.segments,
                            PathSegment(walkingSegment, "W", MODE_COLORS["W"], nodes)),
        totalDistance |-> acc1.totalDistance + walkingSegment.distance,
        totalTravelTime |-> acc1.totalTravelTime + walkingSegment.travelTime,
        instructions |-> Append(acc1.instructions,
                           "Walk from " \o parkingDestination.name \o " to "
                           \o goalDestination.name),
        calls |-> acc1.calls \o walkingSegment.searches]
  ELSE [acc1 EXCEPT !.calls = @ \o walkingSegment.searches]

\* the hybrid branch, given the result of the vehicle segment
AfterVehicleSegment(nodes, edges, adjacency, goalDestination, selectedMode, parkingDestination, acc0, vehicleSegment) ==
  IF vehicleSegment.found
  THEN AfterWalkingSegment(nodes, goalDestination, parkingDestination,
         [segments |-> <<PathSegment(vehicleSegment, selectedMode,
                                     MODE_COLORS[selectedMode], nodes)>>,
          totalDistance |-> 0 + vehicleSegment.distance,
          totalTravelTime |-> 0 + vehicleSegment.travelTime,
          instructions |-> <<"Take " \o getModeName(selectedMode) \o " to "
                             \o parkingDestination.name>>,
          calls |-> acc0.calls \o vehicleSegment.searches],
         calculateSingleRoute(nodes, edges, adjacency,
                              parkingDestination.coordinates[2],
                              parkingDestination.coordinates[1],
                              goalDestination, "W", parkingDestination, goalDestination))
  ELSE [acc0 EXCEPT !.calls = @ \o vehicleSegment.searches]

\* calculateHybridRoute, given the result of the direct route and of
\* shouldUseHybridRouting
AfterDirectRoute(nodes, edges, adjacency, startLat, startLng, goalDestination, selectedMode, directRoute, needsHybridRouting) ==
  LET parkingDestination == needsHybridRouting.parkingDestination
      acc0 == [segments |-> <<>>, totalDistance |-> 0, totalTravelTime |-> 0,
               instructions |-> <<>>, calls |-> directRoute.searches]
  IN IF directRoute.found
     THEN [segments |-> <<PathSegment(directRoute, selectedMode,
                                      MODE_COLORS[selectedMode], nodes)>>,
           totalDistance |-> directRoute.distance,
           totalTravelTime |-> directRoute.travelTime,
           found |-> TRUE,
           instructions |-> <<"Take " \o getModeName(selectedMode) \o " directly to "
                              \o goalDestination.name>>,
           calls |-> directRoute.searches,
           thrown |-> FALSE]
     ELSE IF needsHybridRouting.required /\ parkingDestination = Null
     THEN Thrown(acc0.calls)
     ELSE FinishHybridRoute(nodes, edges, adjacency, startLat, startLng, goalDestination,
            IF needsHybridRouting.required
            THEN AfterVehicleSegment(nodes, edges, adjacency, goalDestination, selectedMode,
                   parkingDestination, acc0,
                   calculateSingleRoute(nodes, edges, adjacency, startLat, startLng,
                                        parkingDestination, selectedMode, Null,
                                        parkingDestination))
            ELSE acc0)

calculateHybridRoute(nodes, edges, adjacency, startLat, startLng, goalDestination, selectedMode) ==
  AfterDirectRoute(nodes, edges, adjacency, startLat, startLng, goalDestination, selectedMode,
                   calculateSingleRoute(nodes, edges, adjacency, startLat, startLng,
                                        goalDestination, selectedMode, Null, goalDestination),
                   shouldUseHybridRouting(selectedMode, goalDestination))

(***************************************************************************)
(* lib/road-pathfinding.ts : mode access and A* over the road graph        *)
(***************************************************************************)
\* the body of `if (mode.includes('if ') && mode.includes(' -> '))` in
\* isEdgeModeAllowed, for the pieces of the tag
RoadConditionGrantsAccess(conditionText, allowedMode, selectedMode, startDestination, goalDestination) ==
  /\ \/ allowedMode = selectedMode
     \/ selectedMode = "4" /\ (allowedMode = "4PA" \/ allowedMode = "4PI")
  /\ \/ /\ Includes(conditionText, "Architecture Block Parking")
        /\ LowerNameIncludes(goalDestination, "architecture")
        /\ LowerNameIncludes(goalDestination, "parking")
     \/ /\ Includes(conditionText, "Men's Hostel Block A/B/C/D Pickup")
        /\ \/ LowerNameIncludes(startDestination, "men's hostel")
           \/ LowerNameIncludes(goalDestination, "men's hostel")
     \/ /\ \/ Includes(conditionText, "Devadan Block Parking")
           \/ Includes(conditionText, "Devadan Parking")
        /\ LowerNameIncludes(goalDestination, "devadan")
        /\ LowerNameIncludes(goalDestination, "parking")
     \/ /\ Includes(conditionText, "Girls Hostel")
        /\ \/ LowerNameIncludes(startDestination, "girls hostel")
           \/ LowerNameIncludes(goalDestination, "girls hostel")
     \/ /\ Includes(conditionText, "Block 1 Entrance 1")
        /\ LowerNameIncludes(goalDestination, "block 1 entrance 1")
     \/ /\ StartsWith(conditionText, "destination is ")
        /\ LowerNameIncludes(goalDestination,
             ToLowerCase(Trim(ReplaceFirstWithEmpty(conditionText, "destination is "))))
     \/ LowerNameIncludes(goalDestination, ToLowerCase(conditionText))
     \/ LowerNameIncludes(startDestination, ToLowerCase(conditionText))

\* `const [condition, allowedMode] = mode.split(' -> ')`, then the body
RoadSplitGrantsAccess(parts, selectedMode, startDestination, goalDestination) ==
  RoadConditionGrantsAccess(Trim(ReplaceFirstWithEmpty(parts[1], "if ")), parts[2],
                            selectedMode, startDestination, goalDestination)

\* what one tag of the edge contributes to isEdgeModeAllowed
RoadTagGrantsAccess(mode, selectedMode, startDestination, goalDestination) ==
  \/ mode = selectedMode
  \/ selectedMode = "W" /\ mode = "W"
  \/ selectedMode = "4" /\ (mode = "4PA" \/ mode = "4PI")
  \/ /\ Includes(mode, "if ") /\ Includes(mode, " -> ")
     /\ RoadSplitGrantsAccess(Split(mode, " -> "), selectedMode, startDestination,
                              goalDestination)

isEdgeModeAllowed(edgeModes, selectedMode, startDestination, goalDestination) ==
  \E i \in 1..Len(edgeModes) :
    RoadTagGrantsAccess(edgeModes[i], selectedMode, startDestination, goalDestination)

RoadNotFound == [path |-> <<>>, coordinates |-> <<>>, distance |-> 0, found |-> FALSE]

\* the open node of lowest fScore, where `fScore.get(id) || Infinity` makes
\* a score of 0 count as Infinity; '' when no open node has a lower score
LowestFScore(openSet, fScore) ==
  LET finite == {i \in 1..Len(openSet) : fScore[openSet[i]] # 0}
  IN IF finite = {} THEN NoId
     ELSE openSet[CHOOSE i \in finite :
                    /\ \A j \in finite : fScore[openSet[i]] <= fScore[openSet[j]]
                    /\ \A j \in finite : j < i => fScore[openSet[j]] > fScore[openSet[i]]]

\* `cameFrom.get(id) || ''`
CameFrom(cameFrom, id) == IF id \in DOMAIN cameFrom THEN cameFrom[id] ELSE NoId

RECURSIVE ReconstructRoadPath(_, _, _)
ReconstructRoadPath(cameFrom, current, path) ==
  IF current = NoId THEN path
  ELSE ReconstructRoadPath(cameFrom, CameFrom(cameFrom, current), <<current>> \o path)

\* the loop over the connections of current, from index k on
RECURSIVE RelaxConnections(_, _, _, _, _, _, _, _, _)
RelaxConnections(graph, connections, k, current, goalNode, mode, startDestination, goalDestination, st) ==
  IF k > Len(connections) THEN st
  ELSE LET neighborId == connections[k]
           next(s) == RelaxConnections(graph, connections, k + 1, current, goalNode, mode,
                                       startDestination, goalDestination, s)
           edgeId == RoadEdgeId(current, neighborId)
       IN IF neighborId \in st.closedSet THEN next(st)
          ELSE IF ~MapHas(graph.edges, edgeId) THEN next(st)
          ELSE LET edge == MapGet(graph.edges, edgeId)
               IN IF ~isEdgeModeAllowed(edge.modes, mode, startDestination, goalDestination)
                  THEN next(st)
                  ELSE LET tentativeG == st.gScore[current] + edge.distance
                           open == ArrayIncludes(st.openSet, neighborId)
                           \* `tentativeG >= (gScore.get(neighborId) || Infinity)`
                           noBetter == /\ open
                                       /\ st.gScore[neighborId] # 0
                                       /\ tentativeG >= st.gScore[neighborId]
                           neighborNode == MapGet(graph.nodes, neighborId)
                           h == haversine(neighborNode.lat, neighborNode.lng,
                                          goalNode.lat, goalNode.lng)
                       IN IF noBetter THEN next(st)
                          ELSE next([st EXCEPT
                                 !.openSet = IF open THEN @ ELSE Append(@, neighborId),
                                 !.cameFrom = [n \in DOMAIN @ \cup {neighborId} |->
                                                 IF n = neighborId THEN current ELSE @[n]],
                                 !.gScore = [n \in DOMAIN @ \cup {neighborId} |->
                                               IF n = neighborId THEN tentativeG ELSE @[n]],
                                 !.fScore = [n \in DOMAIN @ \cup {neighborId} |->
                                               IF n = neighborId THEN tentativeG + h ELSE @[n]]])

RECURSIVE ShortestPathLoop(_, _, _, _, _, _)
ShortestPathLoop(graph, goalNodeId, mode, startDestination, goalDestination, st) ==
  IF Len(st.openSet) = 0 THEN RoadNotFound
  ELSE LET current == LowestFScore(st.openSet, st.fScore)
       IN IF current = NoId THEN RoadNotFound
          ELSE IF current = goalNodeId
          THEN LET path == ReconstructRoadPath(st.cameFrom, current, <<>>)
               IN [path |-> path,
                   coordinates |-> [i \in 1..Len(path) |->
                                      <<MapGet(graph.nodes, path[i]).lat,
                                        MapGet(graph.nodes, path[i]).lng>>],
                   distance |-> st.gScore[goalNodeId],
                   found |-> TRUE]
          ELSE LET st1 == [st EXCEPT !.openSet = SelectSeq(@, LAMBDA n : n # current),
                                     !.closedSet = @ \cup {current}]
               IN ShortestPathLoop(graph, goalNodeId, mode, startDestination, goalDestination,
                    RelaxConnections(graph, MapGet(graph.nodes, current).connections, 1,
                                     current, MapGet(graph.nodes, goalNodeId), mode,
                                     startDestination, goalDestination, st1))

findShortestPath(graph, startNodeId, goalNodeId, mode, startDestination, goalDestination) ==
  IF ~MapHas(graph.nodes, goalNodeId) \/ ~MapHas(graph.nodes, startNodeId) THEN RoadNotFound
  ELSE LET goalNode == MapGet(graph.nodes, goalNodeId)
           startNode == MapGet(graph.nodes, startNodeId)
           heuristic == haversine(startNode.lat, startNode.lng, goalNode.lat, goalNode.lng)
       IN ShortestPathLoop(graph, goalNodeId, mode, startDestination, goalDestination,
            [openSet |-> <<startNodeId>>, closedSet |-> {},
             gScore |-> [n \in {startNodeId} |-> 0],
             fScore |-> [n \in {startNodeId} |-> heuristic],
             cameFrom |-> <<>>])

\* variant: the search starts at the first node of the road graph instead
\* of the node nearest the start coordinate
calculateRoadRoute_FromFirstNode(geoJsonData, startLat, startLng, endLat, endLng, mode, startDestination, goalDestination) ==
  LET roadGraph == buildRoadGraphFromGeoJSON(geoJsonData)
      startNodeId == IF Len(roadGraph.nodes) = 0 THEN NoId ELSE roadGraph.nodes[1].id
      endNodeId == findNearestRoadNode(roadGraph.nodes, endLat, endLng)
  IN IF startNodeId = NoId \/ endNodeId = NoId THEN RoadNotFound
     ELSE findShortestPath(roadGraph, startNodeId, endNodeId, mode,
                           startDestination, goalDestination)

calculateRoadRoute(geoJsonData, startLat, startLng, endLat, endLng, mode, startDestination, goalDestination) ==
  LET roadGraph == buildRoadGraphFromGeoJSON(geoJsonData)
      startNodeId == findNearestRoadNode(roadGraph.nodes, startLat, startLng)
      endNodeId == findNearestRoadNode(roadGraph.nodes, endLat, endLng)
  IN IF startNodeId = NoId \/ endNodeId = NoId THEN RoadNotFound
     ELSE findShortestPath(roadGraph, startNodeId, endNodeId, mode,
                           startDestination, goalDestination)

(***************************************************************************)
(* lib/hybrid-routing.ts : the hybrid planner                              *)
(*                                                                         *)
(* A result carries, besides the fields of HybridRoute, `calls`, the calls *)
(* of calculateRoadRoute the query made in order, and `thrown`, TRUE when  *)
(* the call ended in a TypeError instead of a value.                       *)
(***************************************************************************)
SPECIAL_PARKING == [DEVADHAN |-> "devadan-parking", ARCHITECTURE |-> "architecture-parking",
                    TWO_WHEELER |-> "parking-2wheeler", FOUR_WHEELER |-> "parking-4wheeler"]

GATE_RESTRICTIONS == [m \in {"4", "2", "W"} |->
                        CASE m = "4" -> <<"gate1">>
                          [] m = "2" -> <<"gate2">>
                          [] m = "W" -> <<"gate1", "gate2">>]

ROUTE_COLORS == [m \in {"4", "2", "W", "4PA", "4PI"} |->
                   CASE m = "4" -> "#FF6B6B" [] m = "2" -> "#4ECDC4" [] m = "W" -> "#45B7D1"
                     [] m = "4PA" -> "#FF9F43" [] m = "4PI" -> "#FFA07A"]

\* variant: Architecture parking left out of the 4-wheeler list
allowsDirectVehicleAccess_DevadhanOnly(destinationId, vehicleMode) ==
  IF vehicleMode = "4" \/ vehicleMode = "2"
  THEN destinationId = SPECIAL_PARKING.DEVADHAN
  ELSE FALSE

allowsDirectVehicleAccess(destinationId, vehicleMode) ==
  IF vehicleMode = "4"
  THEN destinationId = SPECIAL_PARKING.DEVADHAN \/ destinationId = SPECIAL_PARKING.ARCHITECTURE
  ELSE IF vehicleMode = "2"
  THEN destinationId = SPECIAL_PARKING.DEVADHAN
  ELSE FALSE

\* variant: the special case is never recognised
needs2WheelerSpecialRouting_Never(endDestination, vehicleMode) == FALSE

\* called with `endDestination?.id`, hence with the destination or undefined
needs2WheelerSpecialRouting(endDestination, vehicleMode) ==
  vehicleMode = "2" /\ endDestination # Null
                    /\ endDestination.id = SPECIAL_PARKING.ARCHITECTURE

getValidStartGates(mode) ==
  IF mode \in DOMAIN GATE_RESTRICTIONS THEN GATE_RESTRICTIONS[mode] ELSE <<>>

\* variant: every start point is accepted
isValidStartPoint_AnyGate(startDestinationId, mode) == TRUE

isValidStartPoint(startDestinationId, mode) ==
  ArrayIncludes(getValidStartGates(mode), startDestinationId)

\* variant: the parking of the mode is not in the catalog
getIntermediateParking_Missing(mode) == Null

getIntermediateParking(mode) ==
  FindDestinationById(IF mode = "4" THEN SPECIAL_PARKING.FOUR_WHEELER
                      ELSE SPECIAL_PARKING.TWO_WHEELER)

\* one call of calculateRoadRoute as it is recorded in `calls`
RoadCall(startLat, startLng, endLat, endLng, mode, startDestination, goalDestination) ==
  [startLat |-> startLat, startLng |-> startLng, endLat |-> endLat, endLng |-> endLng,
   mode |-> mode, startDestination |-> startDestination,
   goalDestination |-> goalDestination]

RouteSegment(mode, route, color, description) ==
  [mode |-> mode, path |-> route.path, coordinates |-> route.coordinates,
   distance |-> route.distance, color |-> color, description |-> description]

HybridResult(segments, totalDistance, found, calls) ==
  [segments |-> segments, totalDistance |-> totalDistance, found |-> found,
   calls |-> calls, thrown |-> FALSE]

HybridThrown(calls) ==
  [segments |-> <<>>, totalDistance |-> 0, found |-> FALSE, calls |-> calls, thrown |-> TRUE]

VehicleName(mode) == IF mode = "4" THEN "4-Wheeler" ELSE "2-Wheeler"

\* "For walking mode or any direct routing fallback, use single segment",
\* given the result of the search
DirectFallbackResult(mode, endDestination, calls1, directRoute) ==
  IF directRoute.found
  THEN HybridResult(
         <<RouteSegment(mode, directRoute,
             IF mode \in DOMAIN ROUTE_COLORS THEN ROUTE_COLORS[mode] ELSE ROUTE_COLORS["W"],
             (IF mode = "W" THEN "Walking" ELSE IF mode = "4" THEN "4-Wheeler"
              ELSE IF mode = "2" THEN "2-Wheeler" ELSE "Direct")
             \o " route to "
             \o (IF endDestination # Null THEN endDestination.name ELSE "destination"))>>,
         directRoute.distance, TRUE, calls1)
  ELSE HybridResult(<<>>, 0, FALSE, calls1)

DirectFallback(geoJsonData, startLat, startLng, endLat, endLng, mode, startDestination, endDestination, calls) ==
  DirectFallbackResult(mode, endDestination,
    Append(calls, RoadCall(startLat, startLng, endLat, endLng, mode,
                           startDestination, endDestination)),
    calculateRoadRoute(geoJsonData, startLat, startLng, endLat, endLng,
                       mode, startDestination, endDestination))

\* the flexible routing, given the results of its two searches; the walking
\* route is searched only when the vehicle route was found
FlexibleRoutingResult(mode, intermediateParking, endDestination, calls1, calls2, vehicleRoute, walkingRoute) ==
  IF ~vehicleRoute.found THEN HybridResult(<<>>, 0, FALSE, calls1)
  ELSE IF ~walkingRoute.found THEN HybridResult(<<>>, 0, FALSE, calls2)
  ELSE HybridResult(
         <<RouteSegment(mode, vehicleRoute, ROUTE_COLORS[mode],
             VehicleName(mode) \o " route to " \o intermediateParking.name),
           RouteSegment("W", walkingRoute, ROUTE_COLORS["W"],
             "Walking route from " \o intermediateParking.name \o " to "
             \o endDestination.name)>>,
         vehicleRoute.distance + walkingRoute.distance, TRUE, calls2)

\* the flexible routing over the parking of the mode
FlexibleRoutingVia(geoJsonData, startLat, startLng, endLat, endLng, mode, startDestination, endDestination, calls, intermediateParking, parkingLat, parkingLng) ==
  FlexibleRoutingResult(mode, intermediateParking, endDestination,
    Append(calls, RoadCall(startLat, startLng, parkingLat, parkingLng, mode,
                           startDestination, intermediateParking)),
    Append(Append(calls, RoadCall(startLat, startLng, parkingLat, parkingLng, mode,
                                  startDestination, intermediateParking)),
           RoadCall(parkingLat, parkingLng, endLat, endLng, "W",
                    intermediateParking, endDestination)),
    calculateRoadRoute(geoJsonData, startLat, startLng, parkingLat, parkingLng, mode,
                       startDestination, intermediateParking),
    calculateRoadRoute(geoJsonData, parkingLat, parkingLng, endLat, endLng, "W",
                       intermediateParking, endDestination))

\* "For vehicles, try flexible routing strategies": vehicle -> parking -> walking
FlexibleRouting(geoJsonData, startLat, startLng, endLat, endLng, mode, startDestination, endDestination, calls) ==
  IF /\ (mode = "4" \/ mode = "2") /\ endDestination # Null
     /\ getIntermediateParking(mode) # Null
  THEN FlexibleRoutingVia(geoJsonData, startLat, startLng, endLat, endLng, mode,
                          startDestination, endDestination, calls,
                          getIntermediateParking(mode),
                          getIntermediateParking(mode).coordinates[2],
                          getIntermediateParking(mode).coordinates[1])
  ELSE DirectFallback(geoJsonData, startLat, startLng, endLat, endLng, mode,
                      startDestination, endDestination, calls)

\* the special routing, given the results of its two searches; the second
\* is made only when the first was found
SpecialRoutingResult(mode, startDestination, devadhanParking, endDestination, calls1, calls2, vehicleToDevadhan, devadhanToArchitecture) ==
  IF ~vehicleToDevadhan.found THEN HybridResult(<<>>, 0, FALSE, calls1)
  ELSE IF ~devadhanToArchitecture.found THEN HybridResult(<<>>, 0, FALSE, calls2)
  \* the description of the first leg reads startDestination.name
  ELSE IF startDestination = Null THEN HybridThrown(calls2)
  ELSE HybridResult(
         <<RouteSegment(mode, vehicleToDevadhan, ROUTE_COLORS[mode],
             "2-Wheeler route from " \o startDestination.name \o " to "
             \o devadhanParking.name),
           RouteSegment(mode, devadhanToArchitecture, ROUTE_COLORS[mode],
             "2-Wheeler route from " \o devadhanParking.name \o " to "
             \o endDestination.name)>>,
         vehicleToDevadhan.distance + devadhanToArchitecture.distance, TRUE, calls2)

\* the special routing over Devadhan parking
SpecialRoutingVia(geoJsonData, startLat, startLng, endLat, endLng, mode, startDestination, endDestination, calls, devadhanParking, devLat, devLng) ==
  SpecialRoutingResult(mode, startDestination, devadhanParking, endDestination,
    Append(calls, RoadCall(startLat, startLng, devLat, devLng, mode,
                           startDestination, devadhanParking)),
    Append(Append(calls, RoadCall(startLat, startLng, devLat, devLng, mode,
                                  startDestination, devadhanParking)),
           RoadCall(devLat, devLng, endLat, endLng, mode, devadhanParking, endDestination)),
    calculateRoadRoute(geoJsonData, startLat, startLng, devLat, devLng, mode,
                       startDestination, devadhanParking),
    calculateRoadRoute(geoJsonData, devLat, devLng, endLat, endLng, mode,
                       devadhanParking, endDestination))

\* "Special routing for 2-wheelers going to Architecture parking (via
\* Devadhan first)"
SpecialRouting(geoJsonData, startLat, startLng, endLat, endLng, mode, startDestination, endDestination, calls) ==
  IF needs2WheelerSpecialRouting(endDestination, mode)
  THEN IF FindDestinationById(SPECIAL_PARKING.DEVADHAN) = Null
       THEN HybridResult(<<>>, 0, FALSE, calls)
       ELSE SpecialRoutingVia(geoJsonData, startLat, startLng, endLat, endLng, mode,
                              startDestination, endDestination, calls,
                              FindDestinationById(SPECIAL_PARKING.DEVADHAN),
                              FindDestinationById(SPECIAL_PARKING.DEVADHAN).coordinates[2],
                              FindDestinationById(SPECIAL_PARKING.DEVADHAN).coordinates[1])
  ELSE FlexibleRouting(geoJsonData, startLat, startLng, endLat, endLng, mode,
                       startDestination, endDestination, calls)

\* calculateHybridRoute of lib/hybrid-routing.ts after the gate check, given
\* whether the direct routing applies and the result of its search
AfterGateCheck(geoJsonData, startLat, startLng, endLat, endLng, mode, startDestination, endDestination, direct, directCall, directRoute) ==
  IF direct /\ directRoute.found
  THEN HybridResult(
         <<RouteSegment(mode, directRoute, ROUTE_COLORS[mode],
             VehicleName(mode) \o " route to " \o endDestination.name)>>,
         directRoute.distance, TRUE, <<directCall>>)
  ELSE SpecialRouting(geoJsonData, startLat, startLng, endLat, endLng, mode,
                      startDestination, endDestination,
                      IF direct THEN <<directCall>> ELSE <<>>)

\* calculateHybridRoute of lib/hybrid-routing.ts, under the name its caller
\* imports it by; its parameter calculateRoadRoute is bound to the function
\* of lib/road-pathfinding.ts that the caller passes
calculateNewHybridRoute(geoJsonData, startLat, startLng, endLat, endLng, mode, startDestination, endDestination) ==
  IF /\ (mode = "4" \/ mode = "2") /\ startDestination # Null
     /\ ~isValidStartPoint(startDestination.id, mode)
  THEN HybridResult(<<>>, 0, FALSE, <<>>)
  ELSE AfterGateCheck(geoJsonData, startLat, startLng, endLat, endLng, mode,
                      startDestination, endDestination,
                      /\ (mode = "4" \/ mode = "2") /\ endDestination # Null
                      /\ allowsDirectVehicleAccess(endDestination.id, mode),
                      RoadCall(startLat, startLng, endLat, endLng, mode,
                               startDestination, endDestination),
                      calculateRoadRoute(geoJsonData, startLat, startLng, endLat, endLng,
                                         mode, startDestination, endDestination))

(***************************************************************************)
(* The inputs: feature collections over the campus skeleton, and queries   *)
(***************************************************************************)
\* the lines of the campus, as [lng, lat] sequences: Gate 1 to the 4-wheeler
\* parking, the parking (drawn a metre off) to Block 1, Gate 1 over Gate 2
\* to Devadan parking, Devadan to Architecture parking, Gate 2 to the
\* 2-wheeler parking, the 2-wheeler parking to Block 1
Skeleton == <<
  << <<0, 0>>, <<12, 0>> >>,
  << <<12, 1>>, <<24, 5>> >>,
  << <<0, 0>>, <<0, 9>>, <<12, 14>> >>,
  << <<12, 14>>, <<24, 14>> >>,
  << <<0, 9>>, <<5, 21>> >>,
  << <<5, 21>>, <<24, 5>> >> >>

\* the mode-tag lists a line may carry
TagChoices == << <<"W">>, <<"W", "2", "4">>, <<"2", "4">>, <<"4">> >>

UsedLines == 1..(IF MaxLines < Len(Skeleton) THEN MaxLines ELSE Len(Skeleton))

UsedTags == 0..(IF NumTagChoices < Len(TagChoices) THEN NumTagChoices ELSE Len(TagChoices))

PointFeatures ==
  [i \in 1..Len(destinations) |->
     [type |-> "Point", coordinates |-> <<destinations[i].coordinates>>,
      name |-> destinations[i].name]]

\* the LineString features of the lines whose choice is not 0, in order
RECURSIVE LineFeatures(_, _)
LineFeatures(choice, k) ==
  IF k \notin UsedLines THEN <<>>
  ELSE (IF choice[k] = 0 THEN <<>>
        ELSE <<[type |-> "LineString", coordinates |-> Skeleton[k],
                mode |-> TagChoices[choice[k]]]>>)
       \o LineFeatures(choice, k + 1)

FeatureCollections ==
  {(IF withPoints THEN PointFeatures ELSE <<>>) \o LineFeatures(choice, 1) :
     withPoints \in BOOLEAN, choice \in [UsedLines -> UsedTags]}

Modes == {"W", "2", "4"}

Gates == {FindDestinationById("gate1"), FindDestinationById("gate2")}

Goals == {FindDestinationById("block1-ent1"), FindDestinationById("devadan-parking"),
          FindDestinationById("architecture-parking"),
          FindDestinationById("parking-4wheeler")}

(***************************************************************************)
(* The application: the collection is loaded, the routing graph is built   *)
(* from it once, then route queries are answered one after the other       *)
(***************************************************************************)
VARIABLES geoJsonData, graph, phase, query, result

\* lib/ar-libraries.ts: the globals it reads and writes in `window` and
\* `customElements`, its module variable loadingPromise (null, or the load
\* whose promise it holds), the loads begun so far with the position each
\* has reached, and for the properties the calls of loadARLibraries and the
\* imports begun, in order
VARIABLES window, loadingPromise, loads, calls, imports

arVars == <<window, loadingPromise, loads, calls, imports>>

vars == <<geoJsonData, graph, phase, query, result, arVars>>

\* the AR module as it is when nothing has called it
ARIdle ==
  /\ window = [__AR_LIBRARIES_LOADED |-> FALSE, AFRAME |-> FALSE, THREEx |-> FALSE,
               aScene |-> FALSE]
  /\ loadingPromise = Null
  /\ loads = <<>>
  /\ calls = <<>>
  /\ imports = <<>>

Init ==
  /\ geoJsonData \in FeatureCollections
  /\ graph = EmptyGraph
  /\ phase = "loaded"
  /\ query = Null
  /\ result = Null
  /\ ARIdle

\* MapComponent: builtGraph = buildGraphFromGeoJSON(geoJsonData)
BuildGraph ==
  /\ phase = "loaded"
  /\ graph' = buildGraphFromGeoJSON(geoJsonData)
  /\ phase' = "ready"
  /\ UNCHANGED <<geoJsonData, query, result>>
  /\ UNCHANGED arVars

\* a query to calculateHybridRoute of lib/pathfinding.ts, from the
\* coordinates of a gate
PathfindingQuery ==
  /\ phase = "ready"
  /\ \E start \in Gates, goal \in Goals, mode \in Modes :
       /\ query' = [planner |-> "pathfinding", mode |-> mode, start |-> start,
                    startDestination |-> Null, endDestination |-> goal]
       /\ result' = calculateHybridRoute(graph.nodes, graph.edges, graph.adjacency,
                                         start.coordinates[2], start.coordinates[1],
                                         goal, mode)
  /\ phase' = "answered"
  /\ UNCHANGED <<geoJsonData, graph>>
  /\ UNCHANGED arVars

\* a query to calculateHybridRoute of lib/hybrid-routing.ts, from the
\* coordinates of a gate, with or without the optional start destination
HybridRoutingQuery ==
  /\ phase = "ready"
  /\ \E start \in Gates, withStart \in BOOLEAN, goal \in Goals, mode \in Modes :
       LET startDestination == IF withStart THEN start ELSE Null
       IN /\ query' = [planner |-> "hybrid-routing", mode |-> mode, start |-> start,
                       startDestination |-> startDestination, endDestination |-> goal]
          /\ result' = calculateNewHybridRoute(geoJsonData,
                                               start.coordinates[2], start.coordinates[1],
                                               goal.coordinates[2], goal.coordinates[1],
                                               mode, startDestination, goal)
  /\ phase' = "answered"
  /\ UNCHANGED <<geoJsonData, graph>>
  /\ UNCHANGED arVars

\* the route is shown and the next query can be made
NextQuery ==
  /\ phase = "answered"
  /\ phase' = "ready"
  /\ query' = Null
  /\ result' = Null
  /\ UNCHANGED <<geoJsonData, graph>>
  /\ UNCHANGED arVars

Next == BuildGraph \/ PathfindingQuery \/ HybridRoutingQuery \/ NextQuery

Spec == Init /\ [][Next]_vars

(***************************************************************************)
(* The graph builders and the searches on their own: a collection of road  *)
(* segments is loaded, the routing graph is built from it, then single     *)
(* searches are run between nodes of the built graphs, and queries of      *)
(* lib/pathfinding.ts are answered on the routing graph                    *)
(***************************************************************************)
\* the largest number of segments in a collection
MaxSegments == 3

\* segments along one road, as [lng, lat] sequences; the ends of some are
\* drawn a metre or two off the ends of others, and the last one is a second
\* drawing of the first that ends in a short hop
Segments == <<
  << <<0, 0>>, <<10, 0>> >>,
  << <<12, 0>>, <<20, 0>> >>,
  << <<1, 0>>, <<20, 0>> >>,
  << <<8, 0>>, <<14, 0>> >>,
  << <<1, 0>>, <<9, 0>>, <<11, 0>> >> >>

\* the mode-tag lists a segment may carry
SegmentTags == << <<"W", "2", "4">>, <<"4">> >>

\* the sequences of at most MaxSegments distinct segments, in every order
SegmentOrders ==
  UNION {{order \in [1..n -> 1..Len(Segments)] :
            \A i, j \in 1..n : i # j => order[i] # order[j]} :
         n \in 0..(IF MaxSegments < Len(Segments) THEN MaxSegments ELSE Len(Segments))}

SegmentCollections ==
  UNION {{[i \in 1..Len(order) |->
             [type |-> "LineString", coordinates |-> Segments[order[i]],
              mode |-> SegmentTags[tags[i]]]] :
            tags \in [1..Len(order) -> 1..Len(SegmentTags)]} :
         order \in SegmentOrders}

SearchInit ==
  /\ geoJsonData \in SegmentCollections
  /\ graph = EmptyGraph
  /\ phase = "loaded"
  /\ query = Null
  /\ result = Null
  /\ ARIdle

\* a search that takes the adjacency list of the start node for its own
\* queue and empties it
AStarSearch_ConsumingAdjacency ==
  /\ phase = "ready"
  /\ \E i, j \in 1..Len(graph.nodes), mode \in Modes :
       /\ query' = [planner |-> "aStarPathfinding", mode |-> mode,
                    startId |-> graph.nodes[i].id, goalId |-> graph.nodes[j].id]
       /\ result' = aStarPathfinding(graph.nodes, graph.edges, graph.adjacency,
                                     graph.nodes[i].id, graph.nodes[j].id, mode, Null, Null)
       /\ graph' = [graph EXCEPT !.adjacency[graph.nodes[i].id] = <<>>]
  /\ phase' = "answered"
  /\ UNCHANGED geoJsonData
  /\ UNCHANGED arVars

\* a search of aStarPathfinding between two nodes of the routing graph
AStarSearch ==
  /\ phase = "ready"
  /\ \E i, j \in 1..Len(graph.nodes), mode \in Modes :
       /\ query' = [planner |-> "aStarPathfinding", mode |-> mode,
                    startId |-> graph.nodes[i].id, goalId |-> graph.nodes[j].id]
       /\ result' = aStarPathfinding(graph.nodes, graph.edges, graph.adjacency,
                                     graph.nodes[i].id, graph.nodes[j].id, mode, Null, Null)
  /\ phase' = "answered"
  /\ UNCHANGED <<geoJsonData, graph>>
  /\ UNCHANGED arVars

\* a search of findShortestPath between two nodes of the road graph, given
\* the road graph
ShortestPathSearchOn(roadGraph) ==
  \E i, j \in 1..Len(roadGraph.nodes), mode \in Modes :
    /\ query' = [planner |-> "findShortestPath", mode |-> mode,
                 startId |-> roadGraph.nodes[i].id, goalId |-> roadGraph.nodes[j].id]
    /\ result' = findShortestPath(roadGraph, roadGraph.nodes[i].id, roadGraph.nodes[j].id,
                                  mode, Null, Null)

ShortestPathSearch ==
  /\ phase = "ready"
  /\ ShortestPathSearchOn(buildRoadGraphFromGeoJSON(geoJsonData))
  /\ phase' = "answered"
  /\ UNCHANGED <<geoJsonData, graph>>
  /\ UNCHANGED arVars

SearchNext ==
  BuildGraph \/ AStarSearch \/ ShortestPathSearch \/ PathfindingQuery \/ NextQuery

SearchSpec == SearchInit /\ [][SearchNext]_vars

(***************************************************************************)
(* The mode-access evaluators on their own: a search looks at one edge,    *)
(* with the mode and the destinations of the trip, and asks the evaluator  *)
(* of its module whether the edge may be used                              *)
(***************************************************************************)
\* the largest number of tags on the edge
MaxTags == 2

\* the tags an edge may carry: plain modes, a 4-wheeler variant, and
\* conditional tags over conditions named in the evaluators
AccessTags ==
  {"W", "2", "4", "4PA",
   "if Devadan Block Parking -> 4",
   "if Architecture Block Parking -> 4PA",
   "if Block 1 Entrance 1 -> 2"}

\* the tag lists of at most MaxTags tags
TagLists == UNION {[1..n -> AccessTags] : n \in 0..MaxTags}

AccessInit ==
  /\ geoJsonData = <<>>
  /\ graph = EmptyGraph
  /\ phase = "edge"
  /\ query \in [edgeModes : TagLists, mode : Modes,
                startDestination : Gates \cup {Null},
                goalDestination : Goals \cup {Null}]
  /\ result = Null
  /\ ARIdle

\* aStarPathfinding: checkModeAccess(edge.modes, mode, startDestination,
\* goalDestination)
CheckModeAccess ==
  /\ phase = "edge"
  /\ result' = checkModeAccess(query.edgeModes, query.mode, query.startDestination,
                               query.goalDestination)
  /\ phase' = "checkModeAccess"
  /\ UNCHANGED <<geoJsonData, graph, query>>
  /\ UNCHANGED arVars

\* findShortestPath: isEdgeModeAllowed(edge.modes, mode, startDestination,
\* goalDestination)
IsEdgeModeAllowed ==
  /\ phase = "edge"
  /\ result' = isEdgeModeAllowed(query.edgeModes, query.mode, query.startDestination,
                                 query.goalDestination)
  /\ phase' = "isEdgeModeAllowed"
  /\ UNCHANGED <<geoJsonData, graph, query>>
  /\ UNCHANGED arVars

AccessNext == CheckModeAccess \/ IsEdgeModeAllowed

AccessSpec == AccessInit /\ [][AccessNext]_vars

(***************************************************************************)
(* lib/ar-libraries.ts on its own: components call loadARLibraries while   *)
(* loads begun by earlier calls are waiting for an import or for a library *)
(* to initialise. The code between two awaits runs without interruption,   *)
(* so each action is a call up to its return, or a load from the end of    *)
(* one await to the next. resetARLibraries is not called.                  *)
(***************************************************************************)
\* the largest number of calls of loadARLibraries
MaxCalls == 3

\* the promise created by load k
LoadPromise(k) == [load |-> k]

\* the loads that have not settled their promise
InFlight == {k \in 1..Len(loads) : loads[k].settled = "pending"}

\* some load has ended in a rejection
SomeLoadFailed == \E k \in 1..Len(loads) : loads[k].settled = "rejected"

\* `await import(...)` of load k is reached: the import begins
BeginImport(k, lib) ==
  imports' = Append(imports, [lib |-> lib, load |-> k, outcome |-> "pending",
                              loaded |-> window.__AR_LIBRARIES_LOADED])

\* the pending import of load k ends with the given outcome
EndImport(k, outcome) ==
  imports' = [i \in 1..Len(imports) |->
                IF imports[i].load = k /\ imports[i].outcome = "pending"
                THEN [imports[i] EXCEPT !.outcome = outcome] ELSE imports[i]]

\* the load of a promise from `if (!window.THREEx)` on, up to the next await
\* or to the end of the executor; `marker` is the value loadingPromise has
\* once this piece of code and, for a new promise, the assignment of the
\* promise to loadingPromise are done
FromARJSCheck(k, win, marker, position) ==
  IF ~win.THREEx
  THEN /\ BeginImport(k, "ar.js")
       /\ loads' = [position EXCEPT ![k] = [pc |-> "import ar.js", settled |-> "pending"]]
       /\ window' = win
       /\ loadingPromise' = marker
  ELSE /\ imports' = imports
       /\ loads' = [position EXCEPT ![k] = [pc |-> "done", settled |-> "fulfilled"]]
       /\ window' = [win EXCEPT !.__AR_LIBRARIES_LOADED = TRUE]
       /\ loadingPromise' = marker

\* the record of a call: the loads in flight when it arrived, whether a
\* load had failed before, and the load promise it received, null for the
\* immediate return
CallRecord(received, started) ==
  [inFlight |-> InFlight, afterFailure |-> SomeLoadFailed,
   loaded |-> window.__AR_LIBRARIES_LOADED, received |-> received, started |-> started]

\* loadARLibraries called while the libraries are loaded: returns at once
ReturnLoaded ==
  /\ Len(calls) < MaxCalls
  /\ window.__AR_LIBRARIES_LOADED
  /\ calls' = Append(calls, CallRecord(Null, FALSE))
  /\ UNCHANGED <<geoJsonData, graph, phase, query, result, window, loadingPromise, loads, imports>>

\* loadARLibraries called while loadingPromise is set: returns that promise
JoinLoad ==
  /\ Len(calls) < MaxCalls
  /\ ~window.__AR_LIBRARIES_LOADED
  /\ loadingPromise # Null
  /\ calls' = Append(calls, CallRecord(loadingPromise, FALSE))
  /\ UNCHANGED <<geoJsonData, graph, phase, query, result, window, loadingPromise, loads, imports>>

\* a call that creates a load promise whatever loadingPromise holds
StartLoad_IgnoringMarker ==
  /\ Len(calls) < MaxCalls
  /\ LET k == Len(loads) + 1
         position == Append(loads, [pc |-> "start", settled |-> "pending"])
     IN /\ calls' = Append(calls, CallRecord(LoadPromise(k), TRUE))
        /\ IF ~window.aScene /\ ~window.AFRAME
           THEN /\ BeginImport(k, "aframe")
                /\ loads' = [position EXCEPT ![k].pc = "import aframe"]
                /\ window' = window
                /\ loadingPromise' = LoadPromise(k)
           ELSE FromARJSCheck(k, window, LoadPromise(k), position)
  /\ UNCHANGED <<geoJsonData, graph, phase, query, result>>

\* loadARLibraries called otherwise: `new Promise` runs the executor up to
\* its first await, or to its end when both libraries are there already
\* (then `finally` clears loadingPromise before the new promise is assigned
\* to it), and the promise is assigned to loadingPromise and returned
StartLoad ==
  /\ Len(calls) < MaxCalls
  /\ ~window.__AR_LIBRARIES_LOADED
  /\ loadingPromise = Null
  /\ LET k == Len(loads) + 1
         position == Append(loads, [pc |-> "start", settled |-> "pending"])
     IN /\ calls' = Append(calls, CallRecord(LoadPromise(k), TRUE))
        /\ IF ~window.aScene /\ ~window.AFRAME
           THEN /\ BeginImport(k, "aframe")
                /\ loads' = [position EXCEPT ![k].pc = "import aframe"]
                /\ window' = window
                /\ loadingPromise' = LoadPromise(k)
           ELSE FromARJSCheck(k, window, LoadPromise(k), position)
  /\ UNCHANGED <<geoJsonData, graph, phase, query, result>>

\* `await import('aframe')` ends: the module has run, AFRAME is defined and
\* a-scene is registered; the load goes on to waitForAFrame
AFrameImported ==
  /\ \E k \in 1..Len(loads) :
       /\ loads[k].pc = "import aframe"
       /\ loads' = [loads EXCEPT ![k].pc = "waitForAFrame"]
       /\ EndImport(k, "imported")
  /\ window' = [window EXCEPT !.AFRAME = TRUE, !.aScene = TRUE]
  /\ UNCHANGED <<geoJsonData, graph, phase, query, result, loadingPromise, calls>>

\* `await waitForAFrame()` ends: the load goes on to the AR.js check
AFrameInitialized ==
  /\ \E k \in 1..Len(loads) :
       /\ loads[k].pc = "waitForAFrame"
       /\ window.AFRAME /\ window.aScene
       /\ FromARJSCheck(k, window, IF window.THREEx THEN Null ELSE loadingPromise, loads)
  /\ UNCHANGED <<geoJsonData, graph, phase, query, result, calls>>

\* `await import('@ar-js-org/ar.js')` ends: THREEx is defined; the load goes
\* on to waitForARJS
ARJSImported ==
  /\ \E k \in 1..Len(loads) :
       /\ loads[k].pc = "import ar.js"
       /\ loads' = [loads EXCEPT ![k].pc = "waitForARJS"]
       /\ EndImport(k, "imported")
  /\ window' = [window EXCEPT !.THREEx = TRUE]
  /\ UNCHANGED <<geoJsonData, graph, phase, query, result, loadingPromise, calls>>

\* `await waitForARJS()` ends: the libraries are marked as loaded, the
\* promise is resolved and `finally` clears loadingPromise
ARJSInitialized ==
  /\ \E k \in 1..Len(loads) :
       /\ loads[k].pc = "waitForARJS"
       /\ window.THREEx
       /\ loads' = [loads EXCEPT ![k] = [pc |-> "done", settled |-> "fulfilled"]]
  /\ window' = [window EXCEPT !.__AR_LIBRARIES_LOADED = TRUE]
  /\ loadingPromise' = Null
  /\ UNCHANGED <<geoJsonData, graph, phase, query, result, calls, imports>>

\* an import is rejected: `catch` rejects the promise and `finally` clears
\* loadingPromise
ImportFailed ==
  /\ \E k \in 1..Len(loads) :
       /\ loads[k].pc \in {"import aframe", "import ar.js"}
       /\ loads' = [loads EXCEPT ![k] = [pc |-> "done", settled |-> "rejected"]]
       /\ EndImport(k, "failed")
  /\ loadingPromise' = Null
  /\ UNCHANGED <<geoJsonData, graph, phase, query, result, window, calls>>

\* the page may hold A-Frame or AR.js already, loaded by another component
ARInit ==
  /\ geoJsonData = <<>>
  /\ graph = EmptyGraph
  /\ phase = "ar"
  /\ query = Null
  /\ result = Null
  /\ window \in [__AR_LIBRARIES_LOADED : {FALSE}, AFRAME : BOOLEAN, THREEx : BOOLEAN,
                 aScene : BOOLEAN]
  /\ loadingPromise = Null
  /\ loads = <<>>
  /\ calls = <<>>
  /\ imports = <<>>

ARNext ==
  \/ ReturnLoaded \/ JoinLoad \/ StartLoad
  \/ AFrameImported \/ AFrameInitialized \/ ARJSImported \/ ARJSInitialized
  \/ ImportFailed

ARSpec == ARInit /\ [][ARNext]_vars

(***************************************************************************)
(* Properties                                                              *)
(***************************************************************************)
AnsweredBy(planner) == phase = "answered" /\ query.planner = planner

VehicleMode(mode) == mode = "4" \/ mode = "2"

\* the gates a vehicle mode may enter by
PermittedGates(mode) == IF mode = "4" THEN {"gate1"} ELSE {"gate2"}

\* the destinations a vehicle mode may drive to directly
DirectAccess(mode) ==
  IF mode = "4" THEN {"devadan-parking", "architecture-parking"} ELSE {"devadan-parking"}

\* the parking a vehicle mode leaves the vehicle at
ModeParking(mode) ==
  IF mode = "4" THEN FindDestinationById("parking-4wheeler")
  ELSE FindDestinationById("parking-2wheeler")

\* C1: in the hybrid planner, a vehicle request whose supplied start
\* destination is not a permitted gate of the mode gets found = false, no
\* leg and total distance 0, and no search was invoked.
C1_InvalidGateRejected ==
  (/\ AnsweredBy("hybrid-routing")
   /\ VehicleMode(query.mode)
   /\ query.startDestination # Null
   /\ query.startDestination.id \notin PermittedGates(query.mode))
  => /\ ~result.thrown
     /\ result.found = FALSE
     /\ result.segments = <<>>
     /\ result.totalDistance = 0
     /\ result.calls = <<>>

\* a 4-wheeler query from Gate 2 over a collection in which the road from
\* Gate 2 to the destination exists and admits 4-wheelers
C1_Witness ==
  /\ AnsweredBy("hybrid-routing")
  /\ query.mode = "4"
  /\ query.startDestination # Null
  /\ query.startDestination.id = "gate2"
  /\ query.endDestination.id = "devadan-parking"
  /\ calculateRoadRoute(geoJsonData, query.start.coordinates[2], query.start.coordinates[1],
                        query.endDestination.coordinates[2],
                        query.endDestination.coordinates[1], "4",
                        query.startDestination, query.endDestination).found
  /\ result.segments = <<>>

\* C2: a result is found exactly when it has legs and every leg has a
\* non-empty path, a result that is not found has no leg and total distance
\* 0, and no query ends in a thrown error.
C2_FoundIffLegs ==
  phase = "answered"
  => /\ ~result.thrown
     /\ result.found <=> (/\ Len(result.segments) > 0
                          /\ \A i \in 1..Len(result.segments) :
                               Len(result.segments[i].path) > 0)
     /\ ~result.found => (result.segments = <<>> /\ result.totalDistance = 0)

\* C3: no partial route: when the first leg of the vehicle -> parking -> walk
\* strategy (or of the 2-wheeler multi-hop) succeeds and the second fails,
\* the returned route is not the successful leg on its own.
C3_NoPartialRoute ==
  /\ (/\ AnsweredBy("pathfinding")
      /\ VehicleMode(query.mode)
      /\ query.endDestination.id \notin DirectAccess(query.mode)
      /\ Len(result.segments) = 1)
     => LET parking == ModeParking(query.mode)
            vehicle == calculateSingleRoute(graph.nodes, graph.edges, graph.adjacency,
                         query.start.coordinates[2], query.start.coordinates[1],
                         parking, query.mode, Null, parking)
            walking == calculateSingleRoute(graph.nodes, graph.edges, graph.adjacency,
                         parking.coordinates[2], parking.coordinates[1],
                         query.endDestination, "W", parking, query.endDestination)
        IN ~(/\ vehicle.found
             /\ ~walking.found
             /\ result.segments[1].path = vehicle.path
             /\ result.instructions = <<"Take " \o getModeName(query.mode) \o " to "
                                         \o parking.name>>)
  /\ (/\ AnsweredBy("hybrid-routing")
      /\ VehicleMode(query.mode)
      /\ ~result.thrown)
     => Len(result.segments) # 1
        \/ query.endDestination.id \in DirectAccess(query.mode)

\* the query of the hybrid planner in the state, and the searches of its
\* strategies as calls of calculateRoadRoute
StartLat == query.start.coordinates[2]
StartLng == query.start.coordinates[1]
EndLat == query.endDestination.coordinates[2]
EndLng == query.endDestination.coordinates[1]

\* the supplied start destination is absent or a permitted gate
StartAdmitted ==
  query.startDestination = Null \/ query.startDestination.id \in PermittedGates(query.mode)

\* the 2-wheeler request to Architecture parking, routed over Devadan
SpecialCase == query.mode = "2" /\ query.endDestination.id = "architecture-parking"

\* the waypoint of the multi-leg strategy of the query and the mode of its
\* second leg
Waypoint == IF SpecialCase THEN FindDestinationById("devadan-parking")
            ELSE ModeParking(query.mode)

SecondLegMode == IF SpecialCase THEN query.mode ELSE "W"

DirectCall == RoadCall(StartLat, StartLng, EndLat, EndLng, query.mode,
                       query.startDestination, query.endDestination)

DirectSearch == calculateRoadRoute(geoJsonData, StartLat, StartLng, EndLat, EndLng,
                                   query.mode, query.startDestination, query.endDestination)

FirstLegCall == RoadCall(StartLat, StartLng, Waypoint.coordinates[2], Waypoint.coordinates[1],
                         query.mode, query.startDestination, Waypoint)

FirstLegSearch == calculateRoadRoute(geoJsonData, StartLat, StartLng,
                                     Waypoint.coordinates[2], Waypoint.coordinates[1],
                                     query.mode, query.startDestination, Waypoint)

SecondLegCall == RoadCall(Waypoint.coordinates[2], Waypoint.coordinates[1], EndLat, EndLng,
                          SecondLegMode, Waypoint, query.endDestination)

SecondLegSearch == calculateRoadRoute(geoJsonData, Waypoint.coordinates[2],
                                      Waypoint.coordinates[1], EndLat, EndLng,
                                      SecondLegMode, Waypoint, query.endDestination)

\* the direct search that precedes the multi-leg strategy, if any
DirectAttempt ==
  IF query.endDestination.id \in DirectAccess(query.mode) THEN <<DirectCall>> ELSE <<>>

\* the hybrid planner entered its multi-leg strategy
MultiLegEntered ==
  /\ AnsweredBy("hybrid-routing")
  /\ VehicleMode(query.mode)
  /\ StartAdmitted
  /\ ~(query.endDestination.id \in DirectAccess(query.mode) /\ DirectSearch.found)

MultiLegFailed == MultiLegEntered /\ (~FirstLegSearch.found \/ ~SecondLegSearch.found)

\* the searches of the multi-leg strategy: the second leg is searched only
\* when the first was found
MultiLegCalls ==
  IF FirstLegSearch.found THEN <<FirstLegCall, SecondLegCall>> ELSE <<FirstLegCall>>

ToHybridPathResult(hybridResult) ==
  LET travelTime(segment) ==
        TravelTime(segment.distance,
                   IF segment.mode = "W" THEN 14 ELSE IF segment.mode = "2" THEN 50 ELSE 80)
  IN [segments |-> [i \in 1..Len(hybridResult.segments) |->
                      [path |-> hybridResult.segments[i].path,
                       distance |-> hybridResult.segments[i].distance,
                       travelTime |-> travelTime(hybridResult.segments[i]),
                       mode |-> hybridResult.segments[i].mode,
                       color |-> hybridResult.segments[i].color,
                       coordinates |-> hybridResult.segments[i].coordinates]],
      totalDistance |-> hybridResult.totalDistance,
      totalTravelTime |-> Sum([i \in 1..Len(hybridResult.segments) |->
                                travelTime(hybridResult.segments[i])]),
      found |-> hybridResult.found,
      instructions |-> [i \in 1..Len(hybridResult.segments) |->
                          hybridResult.segments[i].description]]

\* the route of the answered query in the HybridPathResult format
Route == IF query.planner = "pathfinding" THEN result ELSE ToHybridPathResult(result)

\* C5: the total distance of a returned route is the sum of the distances
\* of its legs and its total travel time the sum of the travel times of its
\* legs (for lib/hybrid-routing.ts, whose legs carry no time, in the
\* HybridPathResult that MapComponent makes of the result).
C5_TotalsAreSums ==
  (phase = "answered" /\ ~result.thrown)
  => /\ result.totalDistance = Sum([i \in 1..Len(result.segments) |-> result.segments[i].distance])
     /\ Route.totalDistance = Sum([i \in 1..Len(Route.segments) |-> Route.segments[i].distance])
     /\ Route.totalTravelTime = Sum([i \in 1..Len(Route.segments) |-> Route.segments[i].travelTime])

\* a found route of two legs, a 4-wheeler leg and a walking leg, both of
\* positive length
C5_Witness ==
  /\ AnsweredBy("hybrid-routing")
  /\ result.found
  /\ Len(result.segments) = 2
  /\ result.segments[1].distance > 0
  /\ result.segments[2].distance > 0
  /\ result.segments[1].mode = "4"
  /\ result.segments[2].mode = "W"
  /\ result.totalDistance = result.segments[1].distance + result.segments[2].distance
  /\ Route.totalTravelTime = Route.segments[1].travelTime + Route.segments[2].travelTime

\* the 2-wheeler request to Architecture parking from Gate 2
SpecialRequest ==
  /\ AnsweredBy("hybrid-routing")
  /\ SpecialCase
  /\ query.startDestination # Null
  /\ query.startDestination.id = "gate2"

\* the road node the Devadan parking coordinate snaps to
DevadanNode ==
  findNearestRoadNode(buildRoadGraphFromGeoJSON(geoJsonData).nodes,
                      FindDestinationById("devadan-parking").coordinates[2],
                      FindDestinationById("devadan-parking").coordinates[1])

TwoLegsOverDevadan ==
  /\ Len(result.segments) = 2
  /\ result.segments[1].mode = "2"
  /\ result.segments[2].mode = "2"
  /\ result.segments[1].path[Len(result.segments[1].path)] = DevadanNode
  /\ result.segments[2].path[1] = DevadanNode

\* C6 as claimed: a 2-wheeler request from Gate 2 to Architecture parking
\* produces exactly two 2-wheeler legs that meet at the node of Devadan
\* parking.
C6_AlwaysTwoLegs == SpecialRequest => TwoLegsOverDevadan

\* C6 as amended: such a request either is found, and then has exactly two
\* 2-wheeler legs that meet at the node of Devadan parking, or is not found
\* and has no leg; it never has a single leg.
C6_TwoLegsWhenFound ==
  SpecialRequest
  => /\ ~result.thrown
     /\ result.found => TwoLegsOverDevadan
     /\ ~result.found => result.segments = <<>>

C6_Witness ==
  /\ SpecialRequest
  /\ result.found
  /\ Len(result.segments) = 2
  /\ result.segments[1].distance > 0
  /\ result.segments[2].distance > 0

\* the node the coordinate of a destination snaps to, in the graph of the
\* planner that answered
SnappedNode(dest) ==
  IF query.planner = "pathfinding"
  THEN findNearestNode(graph.nodes, dest.coordinates[2], dest.coordinates[1]).id
  ELSE findNearestRoadNode(buildRoadGraphFromGeoJSON(geoJsonData).nodes,
                           dest.coordinates[2], dest.coordinates[1])

\* C7: a found route of a vehicle mode to a destination that the mode may
\* not drive to (other than the parking of the mode itself and the
\* 2-wheeler / Architecture case) has
\* exactly two legs: a leg of the mode that ends at the parking of the mode,
\* then a Walking leg; it is never a single vehicle leg.
C7_VehicleThenWalk ==
  (/\ phase = "answered"
   /\ VehicleMode(query.mode)
   /\ query.endDestination.id \notin DirectAccess(query.mode)
   /\ query.endDestination # ModeParking(query.mode)
   /\ ~SpecialCase
   /\ ~result.thrown
   /\ result.found)
  => /\ Len(result.segments) = 2
     /\ result.segments[1].mode = query.mode
     /\ result.segments[2].mode = "W"
     /\ result.segments[1].path[Len(result.segments[1].path)]
          = SnappedNode(ModeParking(query.mode))

\* C8: in the hybrid planner, a vehicle request from a permitted gate to a
\* destination the mode may drive to, whose direct search succeeds, returns
\* exactly that leg and runs no other search.
C8_DirectAccessSingleLeg ==
  (/\ AnsweredBy("hybrid-routing")
   /\ VehicleMode(query.mode)
   /\ query.endDestination.id \in DirectAccess(query.mode)
   /\ query.startDestination # Null
   /\ query.startDestination.id \in PermittedGates(query.mode)
   /\ DirectSearch.found)
  => /\ ~result.thrown
     /\ result.found
     /\ Len(result.segments) = 1
     /\ result.segments[1].mode = query.mode
     /\ result.segments[1].path = DirectSearch.path
     /\ result.segments[1].distance = DirectSearch.distance
     /\ result.totalDistance = DirectSearch.distance
     /\ result.calls = <<DirectCall>>

\* a 4-wheeler query from Gate 1 to Architecture parking that is found
C8_Witness ==
  /\ AnsweredBy("hybrid-routing")
  /\ query.mode = "4"
  /\ query.endDestination.id = "architecture-parking"
  /\ query.startDestination # Null
  /\ query.startDestination.id = "gate1"
  /\ result.found
  /\ Len(result.segments) = 1
  /\ result.segments[1].distance > 0

\* C9: in a route of lib/pathfinding.ts for a 4-wheeler request, a leg of
\* mode 4 never runs over an edge whose only tag is "W".
C9_NoWalkingOnlyEdge ==
  (AnsweredBy("pathfinding") /\ query.mode = "4")
  => \A i \in 1..Len(result.segments) :
       result.segments[i].mode = "4"
       => \A k \in 1..(Len(result.segments[i].path) - 1) :
            LET from == result.segments[i].path[k]
                to == result.segments[i].path[k + 1]
            IN EdgeMapHas(graph.edges, from, to)
               => EdgeMapGet(graph.edges, from, to).modes # <<"W">>

\* the route of the answered query came from the fallback walking route at
\* the end of calculateHybridRoute of lib/pathfinding.ts
WalkingRescueProducedRoute ==
  /\ AnsweredBy("pathfinding")
  /\ query.mode # "W"
  /\ result.found
  /\ "Walk directly to " \o query.endDestination.name \o " (fallback route)"
       \in {result.instructions[i] : i \in 1..Len(result.instructions)}

\* C10: a route produced by the fallback walking route has exactly one
\* leg, of mode Walking, in the fallback color, which is not the color of
\* Walking, and its instruction says that it is a fallback route.
C10_RescueMarked ==
  WalkingRescueProducedRoute
  => /\ Len(result.segments) = 1
     /\ result.segments[1].mode = "W"
     /\ result.segments[1].color = FallbackColor
     /\ FallbackColor # MODE_COLORS["W"]
     /\ result.instructions
          = <<"Walk directly to " \o query.endDestination.name \o " (fallback route)">>

\* no answered query has a route from the fallback walking route: the
\* Walking search it runs has failed before, in the same query
C10_RescueNeverSucceeds == ~WalkingRescueProducedRoute

\* the lengths of the shortest walks over the edges from the nodes of dist,
\* after k more rounds of relaxation of every edge
RECURSIVE ShortestDistances(_, _, _)
ShortestDistances(edges, dist, k) ==
  IF k = 0 THEN dist
  ELSE ShortestDistances(edges,
         [n \in DOMAIN dist \cup {edges[i].to : i \in {j \in 1..Len(edges) :
                                                      edges[j].from \in DOMAIN dist}} |->
            LET all == {dist[edges[i].from] + edges[i].distance :
                          i \in {j \in 1..Len(edges) :
                                   edges[j].from \in DOMAIN dist /\ edges[j].to = n}}
                       \cup (IF n \in DOMAIN dist THEN {dist[n]} ELSE {})
            IN CHOOSE d \in all : \A e \in all : d <= e],
         k - 1)

\* the total distance of the shortest path from startId to goalId over the
\* directed edges of a built graph
ShortestDistance(edges, startId, goalId) ==
  ShortestDistances(edges, [n \in {startId} |-> 0], Len(edges))[goalId]

\* the road graph of the loaded collection
RoadGraph == buildRoadGraphFromGeoJSON(geoJsonData)

\* no segment of the collection, hence no edge of the routing graph or of
\* the road graph, restricts a mode
NoModeRestriction ==
  \A i \in 1..Len(geoJsonData) :
    \A mode \in Modes :
      /\ checkModeAccess(FeatureModes(geoJsonData[i]), mode, Null, Null)
      /\ isEdgeModeAllowed(FeatureModes(geoJsonData[i]), mode, Null, Null)

\* C11: on a graph without mode restrictions, the path a search returns
\* between two nodes is no longer than any other path between them in the
\* built graph, for aStarPathfinding and for findShortestPath.
C11_SearchesAreOptimal ==
  (phase = "answered" /\ NoModeRestriction /\ result.found)
  => /\ query.planner = "aStarPathfinding"
        => result.distance <= ShortestDistance(graph.edges, query.startId, query.goalId)
     /\ query.planner = "findShortestPath"
        => result.distance <= ShortestDistance(RoadGraph.edges, query.startId, query.goalId)

\* the nodes nearest the start coordinate and the destination of the query
NearestStart ==
  findNearestNode(graph.nodes, query.start.coordinates[2], query.start.coordinates[1])

NearestGoal ==
  findNearestNode(graph.nodes, query.endDestination.coordinates[2],
                  query.endDestination.coordinates[1])

\* a Walking request to lib/pathfinding.ts whose nearest nodes are
\* connected in the adjacency index
ConnectedWalkingRequest ==
  /\ AnsweredBy("pathfinding")
  /\ query.mode = "W"
  /\ NearestStart # Null
  /\ NearestGoal # Null
  /\ checkGraphConnectivity(graph.nodes, graph.adjacency, NearestStart.id, NearestGoal.id)

\* C12: a Walking request to calculateHybridRoute of lib/pathfinding.ts
\* whose nearest start node and nearest destination node are connected in
\* the adjacency index is found, with a single leg of mode Walking from the
\* one node to the other, whatever the mode tags of the edges.
C12_WalkingUnrestricted ==
  ConnectedWalkingRequest
  => /\ result.found
     /\ ~result.thrown
     /\ Len(result.segments) = 1
     /\ result.segments[1].mode = "W"
     /\ Len(result.segments[1].path) > 0
     /\ result.segments[1].path[1] = NearestStart.id
     /\ result.segments[1].path[Len(result.segments[1].path)] = NearestGoal.id

\* a Walking request answered by a leg of two edges or more, none of which
\* carries the tag "W"
C12_Witness ==
  /\ ConnectedWalkingRequest
  /\ result.found
  /\ Len(result.segments) = 1
  /\ Len(result.segments[1].path) > 2
  /\ \A k \in 1..(Len(result.segments[1].path) - 1) :
       /\ EdgeMapHas(graph.edges, result.segments[1].path[k], result.segments[1].path[k + 1])
       /\ EdgeMapGet(graph.edges, result.segments[1].path[k],
                     result.segments[1].path[k + 1]).modes = <<"4">>

\* every directed edge of the list has a reverse edge of the same distance
\* and mode tags
HasReverseEdges(edges) ==
  \A i \in 1..Len(edges) :
    \E j \in 1..Len(edges) :
      /\ edges[j].from = edges[i].to
      /\ edges[j].to = edges[i].from
      /\ edges[j].distance = edges[i].distance
      /\ edges[j].modes = edges[i].modes

\* where the adjacency map leads from a to b over an edge, it leads from b
\* to a
NoOneWayAdjacency(edges, adjacency) ==
  \A i \in 1..Len(edges) :
    ArrayIncludes(Neighbors(adjacency, edges[i].from), edges[i].to)
    => ArrayIncludes(Neighbors(adjacency, edges[i].to), edges[i].from)

\* the same for the connections of the nodes of a road graph
NoOneWayConnection(roadGraph) ==
  \A i \in 1..Len(roadGraph.edges) :
    ArrayIncludes(MapGet(roadGraph.nodes, roadGraph.edges[i].from).connections,
                  roadGraph.edges[i].to)
    => ArrayIncludes(MapGet(roadGraph.nodes, roadGraph.edges[i].to).connections,
                     roadGraph.edges[i].from)

\* the routing graph has been built from the loaded collection
GraphBuilt == phase \in {"ready", "answered"}

RECURSIVE LineResolutions(_, _, _, _)
LineResolutions(g, coordinates, modes, i) ==
  IF i > Len(coordinates) THEN <<>>
  ELSE <<[coordinate |-> coordinates[i],
          id |-> findOrCreateNearbyNode(g.nodes, coordinates[i][2], coordinates[i][1])]>>
       \o LineResolutions(LineStep(g, coordinates, modes, i), coordinates, modes, i + 1)

\* the same over the LineString features of a collection, from feature k on
RECURSIVE Resolutions(_, _, _)
Resolutions(features, k, g) ==
  IF k > Len(features) THEN <<>>
  ELSE IF features[k].type = "LineString"
       THEN LineResolutions(g, features[k].coordinates, FeatureModes(features[k]), 1)
            \o Resolutions(features, k + 1,
                           AddLine(g, features[k].coordinates, FeatureModes(features[k]), 1))
       ELSE Resolutions(features, k + 1, g)

\* the node ids that the loop of buildRoadGraphFromGeoJSON resolves the
\* coordinates of one road to, from index i on
RECURSIVE RoadLineResolutions(_, _, _, _)
RoadLineResolutions(rg, coordinates, modes, i) ==
  IF i > Len(coordinates) THEN <<>>
  ELSE <<[coordinate |-> coordinates[i],
          id |-> findOrCreateNode(rg.nodes, coordinates[i][2], coordinates[i][1]).id]>>
       \o RoadLineResolutions(RoadStep(rg, coordinates, modes, i), coordinates, modes, i + 1)

RECURSIVE RoadResolutions(_, _, _)
RoadResolutions(features, k, rg) ==
  IF k > Len(features) THEN <<>>
  ELSE IF features[k].type = "LineString"
       THEN RoadLineResolutions(rg, features[k].coordinates, FeatureModes(features[k]), 1)
            \o RoadResolutions(features, k + 1,
                               AddRoad(rg, features[k].coordinates,
                                       FeatureModes(features[k]), 1))
       ELSE RoadResolutions(features, k + 1, rg)

\* any two coordinates of the resolutions within the tolerance of each
\* other have the same node id
SnappedTogether(resolved, tolerance) ==
  \A i, j \in 1..Len(resolved) :
    haversine(resolved[i].coordinate[2], resolved[i].coordinate[1],
              resolved[j].coordinate[2], resolved[j].coordinate[1]) <= tolerance
    => resolved[i].id = resolved[j].id

\* C14: within one build, any two coordinates of the ingested lines that
\* lie within the snap tolerance of each other (2 m in buildGraphFromGeoJSON,
\* 5 m in buildRoadGraphFromGeoJSON) are resolved to the same node id, in
\* whatever order the lines are ingested.
C14_SnapInvariant ==
  GraphBuilt
  => /\ SnappedTogether(Resolutions(geoJsonData, 1, AddPointNodes(geoJsonData, 1, EmptyGraph)),
                        NearbyTolerance)
     /\ SnappedTogether(RoadResolutions(geoJsonData, 1, [nodes |-> <<>>, edges |-> <<>>]),
                        SNAP_DISTANCE)

\* C15: the two evaluators agree: on every edge tag list, requested mode
\* and pair of trip destinations, checkModeAccess and isEdgeModeAllowed
\* return the same boolean.
C15_EvaluatorsAgree ==
  /\ phase = "checkModeAccess"
     => result = isEdgeModeAllowed(query.edgeModes, query.mode, query.startDestination,
                                   query.goalDestination)
  /\ phase = "isEdgeModeAllowed"
     => result = checkModeAccess(query.edgeModes, query.mode, query.startDestination,
                                 query.goalDestination)

\* an evaluator has answered for the edge of the query
Evaluated == phase \in {"checkModeAccess", "isEdgeModeAllowed"}

\* the tag has the shape "if <condition> -> <mode>"
IsConditionalTag(tag) == Includes(tag, "if ") /\ Includes(tag, " -> ")

\* the condition text and the allowed mode of a conditional tag
ConditionOf(tag) == Trim(ReplaceFirstWithEmpty(Split(tag, " -> ")[1], "if "))

AllowedModeOf(tag) == Split(tag, " -> ")[2]

\* the allowed mode of the tag is the requested mode, or a 4-wheeler
\* variant when 4-wheeler is requested
AllowedModeMatches(allowedMode, selectedMode) ==
  \/ allowedMode = selectedMode
  \/ selectedMode = "4" /\ (allowedMode = "4PA" \/ allowedMode = "4PI")

\* the places that the evaluators know conditions by
NamedPlaces ==
  {"architecture", "men's hostel", "devadan", "girls hostel", "block 1 entrance 1"}

\* the condition matches the name of the destination, in the widest sense
\* either evaluator gives to it: the name contains the condition text, or
\* the text after "destination is ", or both name the same known place
ConditionMatches(conditionText, dest) ==
  \/ LowerNameIncludes(dest, ToLowerCase(conditionText))
  \/ /\ StartsWith(conditionText, "destination is ")
     /\ LowerNameIncludes(dest,
          ToLowerCase(Trim(ReplaceFirstWithEmpty(conditionText, "destination is "))))
  \/ \E place \in NamedPlaces :
       Includes(ToLowerCase(conditionText), place) /\ LowerNameIncludes(dest, place)

\* C16: for a request other than Walking, an edge whose only tag is the
\* conditional tag "if C -> M" is allowed by the evaluator only if M is the
\* requested mode (or 4PA / 4PI for a 4-wheeler request) and C matches the
\* name of the start or of the goal destination of the trip; otherwise the
\* evaluator denies.
C16_ConditionalAccessEnforced ==
  (/\ Evaluated
   /\ query.mode # "W"
   /\ Len(query.edgeModes) = 1
   /\ IsConditionalTag(query.edgeModes[1])
   /\ result = TRUE)
  => /\ AllowedModeMatches(AllowedModeOf(query.edgeModes[1]), query.mode)
     /\ \/ ConditionMatches(ConditionOf(query.edgeModes[1]), query.startDestination)
        \/ ConditionMatches(ConditionOf(query.edgeModes[1]), query.goalDestination)

\* C17: an edge with an empty list of mode tags is unrestricted: each
\* evaluator allows it for every requested mode and any destinations.
C17_EmptyTagListAllowed ==
  (Evaluated /\ query.edgeModes = <<>>) => result = TRUE

\* C18: route queries leave the graph alone: in every state after the
\* build, whatever searches of aStarPathfinding and queries of
\* calculateHybridRoute (with its calls of calculateSingleRoute) have been
\* answered since, the node map, the edge list and the adjacency map are
\* those that buildGraphFromGeoJSON returned.
C18_QueriesLeaveGraph ==
  GraphBuilt => graph = buildGraphFromGeoJSON(geoJsonData)

\* a planner query answered with a route over two edges or more
C18_Witness ==
  /\ AnsweredBy("pathfinding")
  /\ result.found
  /\ Len(result.segments) = 1
  /\ Len(result.segments[1].path) > 2
  /\ graph.edges # <<>>
  /\ graph = buildGraphFromGeoJSON(geoJsonData)

\* C20: within one planner query no search is run twice with the same
\* parameters (start node, goal node, mode, trip destinations): the searches
\* of an answered query are pairwise different, so that the closing walking
\* rescue of calculateHybridRoute never repeats a Walking search that the
\* query has already made between the same nodes.
C20_NoRepeatedSearch ==
  phase = "answered" /\ query.planner \in {"pathfinding", "hybrid-routing"}
  => \A i, j \in 1..Len(result.calls) : i # j => result.calls[i] # result.calls[j]

\* the edge the search looks up for the hop from path[k] to path[k + 1]
HopEdge(edges, path, k) == EdgeMapGet(edges, path[k], path[k + 1])

\* a search of aStarPathfinding that returned a path
AStarFound == AnsweredBy("aStarPathfinding") /\ result.found

\* C21: when aStarPathfinding returns found = true, the path starts at the
\* start node and ends at the goal node, every hop of the path is an edge of
\* the graph that checkModeAccess allows for the requested mode and the
\* destinations of the trip, distance is the sum of the lengths of these
\* edges, and travelTime is the sum of length / speed of the mode over them.
C21_FoundPathIsSound ==
  AStarFound
  => /\ Len(result.path) > 0
     /\ result.path[1] = query.startId
     /\ result.path[Len(result.path)] = query.goalId
     /\ \A k \in 1..(Len(result.path) - 1) :
          /\ EdgeMapHas(graph.edges, result.path[k], result.path[k + 1])
          /\ checkModeAccess(HopEdge(graph.edges, result.path, k).modes, query.mode,
                             Null, Null)
     /\ result.distance =
          Sum([k \in 1..(Len(result.path) - 1) |->
                 HopEdge(graph.edges, result.path, k).distance])
     /\ result.travelTime =
          Sum([k \in 1..(Len(result.path) - 1) |->
                 TravelTime(HopEdge(graph.edges, result.path, k).distance,
                            MODE_SPEEDS[query.mode])])

\* a 2-wheeler search that found a path of two hops or more in a graph
\* that also holds an edge closed to 2-wheelers
C21_Witness ==
  /\ AStarFound
  /\ query.mode = "2"
  /\ Len(result.path) > 2
  /\ \E i \in 1..Len(graph.edges) :
       ~checkModeAccess(graph.edges[i].modes, "2", Null, Null)

\* the nodes joined to a node of `reached` by adjacency entries taken in
\* either direction, over any number of hops
RECURSIVE ComponentOf(_, _)
ComponentOf(adjacency, reached) ==
  LET more == {n \in DOMAIN adjacency :
                 \E r \in reached \cap DOMAIN adjacency :
                   ArrayIncludes(adjacency[r], n) \/ ArrayIncludes(adjacency[n], r)}
  IN IF more \subseteq reached THEN reached
     ELSE ComponentOf(adjacency, reached \cup more)

\* the start node and the goal node of the search are in different
\* connected components of the adjacency index
DifferentComponents ==
  query.goalId \notin ComponentOf(graph.adjacency, {query.startId})

SearchEnd ==
  AStarRun(graph.nodes, graph.edges, graph.adjacency, query.goalId, query.mode, Null, Null,
           AStarStart(graph.nodes, query.startId, query.goalId, query.mode))

\* a search of aStarPathfinding that entered its main loop
LoopEntered ==
  /\ AnsweredBy("aStarPathfinding")
  /\ checkGraphConnectivity(graph.nodes, graph.adjacency, query.startId, query.goalId)

\* the run expanded every node at most once, left no closed node in the open
\* set and made no more iterations than there are nodes or than the cap
BoundedRun(end, nodes) ==
  /\ \A i, j \in 1..Len(end.expanded) : i # j => end.expanded[i] # end.expanded[j]
  /\ \A i \in 1..Len(end.openSet) : end.openSet[i] \notin end.closedSet
  /\ end.closedSet = {end.expanded[i] : i \in 1..Len(end.expanded)}
  /\ end.iterations <= Len(nodes)
  /\ end.iterations <= maxIterations

\* the run ended without reaching the goal
FailedRun(end) == ~end.reached

JoinedPairs(edges) ==
  {{edges[i].from, edges[i].to} : i \in {j \in 1..Len(edges) : edges[j].from # edges[j].to}}

\* no edge leads from a node to itself, and there are two directed edges
\* for every pair of joined nodes
ProperEdges(edges) ==
  /\ \A i \in 1..Len(edges) : edges[i].from # edges[i].to
  /\ Len(edges) = 2 * Cardinality(JoinedPairs(edges))

\* C24: a built graph holds no edge from a node to itself, also when two
\* consecutive coordinates of a line snap to the same node, and the number
\* of its directed edges is twice the number of distinct node pairs joined
\* by a segment hop; for the routing graph and for the road graph.
C24_EdgesJoinDistinctNodes ==
  GraphBuilt => ProperEdges(graph.edges) /\ ProperEdges(RoadGraph.edges)

\* every edge of g has the length of the distance between its two endpoint
\* nodes as the node map of g holds them
EdgeLengthsMatch(g) ==
  \A i \in 1..Len(g.edges) :
    /\ MapHas(g.nodes, g.edges[i].from)
    /\ MapHas(g.nodes, g.edges[i].to)
    /\ g.edges[i].distance =
         haversine(MapGet(g.nodes, g.edges[i].from).lat, MapGet(g.nodes, g.edges[i].from).lng,
                   MapGet(g.nodes, g.edges[i].to).lat, MapGet(g.nodes, g.edges[i].to).lng)

\* C25: in a built graph the length of every edge is the distance between
\* the coordinates of its two endpoint nodes in the node map, also when an
\* endpoint was obtained by snapping a raw coordinate to an existing node;
\* for the routing graph and for the road graph.
C25_EdgeLengthIsNodeDistance ==
  GraphBuilt => EdgeLengthsMatch(graph) /\ EdgeLengthsMatch(RoadGraph)

\* the adjacency map has an entry for every node of the node map
EveryNodeRecorded(g) ==
  \A i \in 1..Len(g.nodes) : g.nodes[i].id \in DOMAIN g.adjacency

\* the two ends of every edge are keys of the node map
EdgeEndsAreNodes(g) ==
  \A i \in 1..Len(g.edges) : MapHas(g.nodes, g.edges[i].from) /\ MapHas(g.nodes, g.edges[i].to)

\* b is in the adjacency list of a exactly when there is an edge a -> b
AdjacencyMirrorsEdges(g) ==
  /\ \A a \in DOMAIN g.adjacency :
       \A k \in 1..Len(g.adjacency[a]) : EdgeMapHas(g.edges, a, g.adjacency[a][k])
  /\ \A i \in 1..Len(g.edges) :
       ArrayIncludes(Neighbors(g.adjacency, g.edges[i].from), g.edges[i].to)

\* C26: after buildGraphFromGeoJSON the adjacency map has an entry for
\* every node of the node map, isolated destination nodes included, both
\* ends of every edge are keys of the node map, and b is in adjacency[a]
\* if and only if an edge a -> b exists.
C26_AdjacencyConsistent ==
  GraphBuilt => EveryNodeRecorded(graph) /\ EdgeEndsAreNodes(graph) /\ AdjacencyMirrorsEdges(graph)

\* the imports of a library that were not rejected
ImportsOf(lib) == {i \in 1..Len(imports) : imports[i].lib = lib /\ imports[i].outcome # "failed"}

\* a call that arrived while a load was in flight was given the promise of
\* that load and began no load
JoinsLoadInFlight(call) ==
  \A k \in call.inFlight : call.received = LoadPromise(k) /\ ~call.started

\* a call that arrived after a failed load, with no load in flight and the
\* libraries not loaded, began a fresh load
RetriesAfterFailure(call) ==
  (call.afterFailure /\ call.inFlight = {} /\ ~call.loaded) => call.started

\* C27: over any interleaving of calls of loadARLibraries with the loads
\* they begin, at most one load is in flight; a call arriving while a load is
\* in flight is given the promise of that load; A-Frame and AR.js are each
\* imported at most once; no import begins once __AR_LIBRARIES_LOADED is
\* set; and when a load has failed, loadingPromise is cleared and a later
\* call begins a fresh load.
C27_SingleLoadInFlight ==
  /\ Cardinality(InFlight) <= 1
  /\ \A c \in 1..Len(calls) : JoinsLoadInFlight(calls[c]) /\ RetriesAfterFailure(calls[c])
  /\ Cardinality(ImportsOf("aframe")) <= 1
  /\ Cardinality(ImportsOf("ar.js")) <= 1
  /\ \A i \in 1..Len(imports) : ~imports[i].loaded
  /\ (InFlight = {} /\ ~window.__AR_LIBRARIES_LOADED) => loadingPromise = Null

\* a first call began a load, a second call joined it, the load failed, and
\* a third call began a fresh load
C27_Witness ==
  /\ Len(calls) = 3
  /\ calls[1].started
  /\ calls[2].inFlight = {1} /\ calls[2].received = LoadPromise(1)
  /\ loads[1].settled = "rejected"
  /\ calls[3].started /\ calls[3].received = LoadPromise(2)

\* a single search whose start node is its goal node
SameNodeSearch ==
  /\ phase = "answered"
  /\ query.planner \in {"aStarPathfinding", "findShortestPath"}
  /\ query.startId = query.goalId

\* the start coordinate and the destination of the planner query have the
\* same nearest node among `roadNodes`
SameRoadNode(roadNodes) ==
  /\ findNearestRoadNode(roadNodes, StartLat, StartLng) # NoId
  /\ findNearestRoadNode(roadNodes, StartLat, StartLng) =
       findNearestRoadNode(roadNodes, EndLat, EndLng)

\* C28: a search from a node of the graph to itself returns found = true
\* with the path holding that node alone and distance zero, in
\* aStarPathfinding and in findShortestPath; and a planner query whose start
\* coordinate and destination have the same nearest node is found.
C28_SameNodeFound ==
  /\ SameNodeSearch
     => result.found /\ result.path = <<query.startId>> /\ result.distance = 0
  /\ (AnsweredBy("pathfinding") /\ NearestStart # Null /\ NearestStart.id = NearestGoal.id)
     => result.found
  /\ (AnsweredBy("hybrid-routing") /\ isValidStartPoint(query.start.id, query.mode)
      /\ SameRoadNode(RoadGraph.nodes))
     => result.found

\* the hops that the loop of buildRoadGraphFromGeoJSON takes in from one
\* road, from index i on: the two node ids of each hop and the tags of its road
RECURSIVE RoadLineHops(_, _, _, _)
RoadLineHops(rg, coordinates, modes, i) ==
  IF i >= Len(coordinates) THEN <<>>
  ELSE <<[from |-> findOrCreateNode(rg.nodes, coordinates[i][2], coordinates[i][1]).id,
          to |-> findOrCreateNode(
                   findOrCreateNode(rg.nodes, coordinates[i][2], coordinates[i][1]).nodes,
                   coordinates[i + 1][2], coordinates[i + 1][1]).id,
          modes |-> modes]>>
       \o RoadLineHops(RoadStep(rg, coordinates, modes, i), coordinates, modes, i + 1)

\* the same over the LineString features of a collection, from feature k on
RECURSIVE RoadHops(_, _, _)
RoadHops(features, k, rg) ==
  IF k > Len(features) THEN <<>>
  ELSE IF features[k].type = "LineString"
       THEN RoadLineHops(rg, features[k].coordinates, FeatureModes(features[k]), 1)
            \o RoadHops(features, k + 1,
                        AddRoad(rg, features[k].coordinates, FeatureModes(features[k]), 1))
       ELSE RoadHops(features, k + 1, rg)

\* some hop taken in between the two nodes of the search, in either
\* direction, carries tags that admit the mode of the search
RoadHopAdmits(hops) ==
  \E k \in 1..Len(hops) :
    /\ {hops[k].from, hops[k].to} = {query.startId, query.goalId}
    /\ isEdgeModeAllowed(hops[k].modes, query.mode, Null, Null)

\* some edge of the routing graph from the start node of the search to its
\* goal node carries tags that admit the mode of the search
EdgeAdmits ==
  \E k \in 1..Len(graph.edges) :
    /\ graph.edges[k].from = query.startId
    /\ graph.edges[k].to = query.goalId
    /\ checkModeAccess(graph.edges[k].modes, query.mode, Null, Null)

\* a search of `planner` between two different nodes
SearchBetween(planner) ==
  /\ phase = "answered"
  /\ query.planner = planner
  /\ query.startId # query.goalId

\* C29: parallel segments do not shadow each other: when a segment taken in
\* between two nodes admits the mode of a search from the one node to the
\* other, the search crosses that connection and finds the goal, whichever
\* segment between the two nodes was taken in last.
C29_ParallelSegmentsDoNotShadow ==
  /\ (SearchBetween("aStarPathfinding") /\ EdgeAdmits
      /\ ArrayIncludes(Neighbors(graph.adjacency, query.startId), query.goalId))
     => result.found
  /\ (SearchBetween("findShortestPath")
      /\ RoadHopAdmits(RoadHops(geoJsonData, 1, [nodes |-> <<>>, edges |-> <<>>])))
     => result.found

\* the answer of `planner` is a route of two legs or more
MultiLegRoute(planner) == AnsweredBy(planner) /\ Len(result.segments) >= 2

\* each leg ends at the node that the next leg starts at
LegsContiguous(segments) ==
  \A k \in 1..(Len(segments) - 1) :
    /\ Len(segments[k].path) > 0
    /\ Len(segments[k + 1].path) > 0
    /\ segments[k].path[Len(segments[k].path)] = segments[k + 1].path[1]

\* the first leg starts at startId and the last leg ends at endId
LegsSpan(segments, startId, endId) ==
  /\ segments[1].path[1] = startId
  /\ segments[Len(segments)].path[Len(segments[Len(segments)].path)] = endId

\* the legs of the answer span the road nodes nearest the start coordinate
\* and the destination of the query
RoadLegsSpan(roadNodes) ==
  LegsSpan(result.segments, findNearestRoadNode(roadNodes, StartLat, StartLng),
           findNearestRoadNode(roadNodes, EndLat, EndLng))

\* C30: in every route of two legs or more that a planner returns, each
\* leg ends at the graph node that the next leg starts at, the first leg
\* starts at the node nearest the start coordinate and the last leg ends at
\* the node nearest the destination coordinate.
C30_LegsContiguous ==
  /\ MultiLegRoute("pathfinding")
     => /\ LegsContiguous(result.segments)
        /\ LegsSpan(result.segments, NearestStart.id, NearestGoal.id)
  /\ MultiLegRoute("hybrid-routing")
     => /\ LegsContiguous(result.segments)
        /\ RoadLegsSpan(RoadGraph.nodes)

\* the hybrid planner has returned a route of two legs whose middle node
\* is neither end of the route
C30_Witness ==
  /\ MultiLegRoute("hybrid-routing")
  /\ Len(result.segments[1].path) >= 2
  /\ Len(result.segments[2].path) >= 2
====
